---- MODULE Spec2Model ----
(***************************************************************************)
(* Model of apps/domain/services/capital_gain_parser.py: the layout-based  *)
(* reconstruction of a capital gain statement from positioned PDF words.   *)
(*                                                                         *)
(* Numbers.  The parser computes with floats (coordinates, centers,        *)
(* midpoints, means).  A float is written <<n, d>> (d > 0, lowest terms):  *)
(* the float nearest to n/d, which is n/d itself for the halves, quarters  *)
(* and so on that coordinates are.  A result that is no such fraction (a   *)
(* mean of three centers, say) is written <<s, m, e>>, the float           *)
(* s * m * 2^e exactly, and every sum, difference and quotient is rounded  *)
(* as the interpreter rounds it.                                           *)
(*                                                                         *)
(* Text.  A str is a sequence of one-character strings, so that strip,     *)
(* startswith, lower, the numeric regex and " ".join are computed          *)
(* character by character as the source computes them.  A character that   *)
(* a module cannot spell is written by its code point ("U+20B9").          *)
(***************************************************************************)
EXTENDS Integers, Sequences, FiniteSets, TLC

VARIABLES
    call,             \* the call of a helper under study: [fn, ...arguments]
    frame,            \* the local variables of that call while it runs
    ret,              \* what the call returned (None until it returns)
    files,            \* the files of the caller: path -> [pages, producer]
    pdf_path,         \* the path the parser is called with
    pdf,              \* pdf_reader.pages of that path: a sequence of pages [words, text]
    pc,               \* position in parse_capital_gain_statement / the caller
    page_index,       \* the page loop's index (0-based, as in the source)
    multi_page,       \* len(pdf_reader.pages) > 1
    header,           \* header: dict | None
    summary_frames,   \* list of summary DataFrames
    section_tables,   \* dict section name -> DataFrame
    all_cells,        \* list of ExtractedCell
    statement,        \* the returned CapitalGainStatement (None before)
    fresh,            \* the document cross_check_against_pdf re-opens
    issues,           \* what cross_check_against_pdf returned (None before)
    csv_rows,         \* the rows to_combined_csv wrote (None before)
    csv_files,        \* the files to_csv wrote (None before)
    runs,             \* how many times the parser has been called
    prev,             \* the calls before: [pdf_path, pdf, pc, statement, csv_rows] of each
    page_results      \* one-task-per-page variant: each page's own result

callVars == <<call, frame, ret>>
parseVars == <<files, pdf_path, pdf, pc, page_index, multi_page, header, summary_frames, section_tables, all_cells, statement, fresh, issues, csv_rows, csv_files, runs, prev, page_results>>
vars == <<call, frame, ret, files, pdf_path, pdf, pc, page_index, multi_page, header, summary_frames, section_tables, all_cells, statement, fresh, issues, csv_rows, csv_files, runs, prev, page_results>>

\* Optional values: None is the empty sequence, a present value x is <<x>>
None == <<>>
Some(x) == <<x>>

\* ------------------------------------------------------------------------
\* Float arithmetic
\* ------------------------------------------------------------------------

Abs(i) == IF i < 0 THEN -i ELSE i

RECURSIVE Gcd(_, _)
Gcd(a, b) == IF b = 0 THEN a ELSE Gcd(b, a % b)

\* n/d in lowest terms, d > 0
Rat(n, d) == LET g == Gcd(Abs(n), d) IN <<n \div g, d \div g>>

Q(i) == <<i, 1>>
Half(i) == Rat(i, 2)

\* the denominators 1, 2, .., 1024
SmallPowers == {2^k : k \in 0..10}

\* a float written <<n, d>> that is n/d itself, small enough for the sums
\* and differences of two of them to be floats as well
Simple(a) == Len(a) = 2 /\ a[2] \in SmallPowers /\ a[1] < 1048576 /\ a[1] > -1048576

\* A float that is not Simple is written <<s, m, e>>: s * m * 2^e with s the
\* sign (1 or -1), m an odd natural below 2^53 and e an integer.  m is a
\* natural of any size: its base-1024 digits, lowest first, the highest not
\* 0 (<<>> is 0).  The digit-by-digit operations, and further on the larger
\* functions of the parser, call one another through Calc(op, v), which carries
\* out the operation named op on the operands v and is defined after the last
\* of them; Calc("Strip", <<s>>) is Strip(s).
RECURSIVE Calc(_, _)

BigTrim(a) ==
    LET nz == {i \in 1..Len(a) : a[i] # 0}
    IN IF nz = {} THEN <<>> ELSE SubSeq(a, 1, CHOOSE i \in nz : \A j \in nz : j <= i)

\* 0 <= n < 2^31
BigOfInt(n) == BigTrim(<<n % 1024, (n \div 1024) % 1024, (n \div 1048576) % 1024, n \div 1073741824>>)

BigDigit(a, i) == IF i >= 1 /\ i <= Len(a) THEN a[i] ELSE 0

\* a below 2^31
BigToInt(a) == BigDigit(a, 1) + 1024 * BigDigit(a, 2) + 1048576 * BigDigit(a, 3) + 1073741824 * BigDigit(a, 4)

\* a + b: position i takes a carry when a lower position overflows and the
\* positions in between pass it on
BigAdd(a, b) ==
    LET n == (IF Len(a) > Len(b) THEN Len(a) ELSE Len(b)) + 1
        sum(i) == BigDigit(a, i) + BigDigit(b, i)
        carry(i) == \E j \in 1..(i - 1) : sum(j) >= 1024 /\ \A k \in (j + 1)..(i - 1) : sum(k) = 1023
    IN BigTrim([i \in 1..n |-> (sum(i) + (IF carry(i) THEN 1 ELSE 0)) % 1024])

\* a - b for a >= b
BigSub(a, b) ==
    LET borrow(i) == \E j \in 1..(i - 1) : BigDigit(a, j) < BigDigit(b, j) /\ \A k \in (j + 1)..(i - 1) : BigDigit(a, k) = BigDigit(b, k)
    IN BigTrim([i \in 1..Len(a) |-> (1024 + BigDigit(a, i) - BigDigit(b, i) - (IF borrow(i) THEN 1 ELSE 0)) % 1024])

\* a < b
BigLt(a, b) ==
    \/ Len(a) < Len(b)
    \/ Len(a) = Len(b) /\ \E i \in 1..Len(a) : a[i] < b[i] /\ \A k \in (i + 1)..Len(a) : a[k] = b[k]

\* a * 2^k
BigShl(a, k) ==
    LET q == k \div 10
        m == 2^(k % 10)
    IN BigTrim([i \in 1..(Len(a) + q + 1) |-> ((BigDigit(a, i - q) * m) % 1024) + ((BigDigit(a, i - q - 1) * m) \div 1024)])

\* a \div 2^k
BigShr(a, k) ==
    LET q == k \div 10
        r == k % 10
    IN IF Len(a) <= q THEN <<>>
       ELSE BigTrim([i \in 1..(Len(a) - q) |-> (BigDigit(a, i + q) \div 2^r) + ((BigDigit(a, i + q + 1) % 2^r) * 2^(10 - r))])

\* the number of binary digits of 0 <= x < 2^30
BitsOf(x) == CHOOSE b \in 0..30 : x < 2^b /\ (b = 0 \/ 2^(b - 1) <= x)

BigBits(a) == IF a = <<>> THEN 0 ELSE 10 * (Len(a) - 1) + CHOOSE b \in 1..10 : a[Len(a)] < 2^b /\ 2^(b - 1) <= a[Len(a)]

BigIsOdd(a) == a # <<>> /\ a[1] % 2 = 1

\* the number of zero binary digits a # 0 ends with
BigZeros(a) ==
    LET i == CHOOSE j \in 1..Len(a) : a[j] # 0 /\ \A k \in 1..(j - 1) : a[k] = 0
    IN 10 * (i - 1) + CHOOSE z \in 0..9 : a[i] % 2^z = 0 /\ a[i] % 2^(z + 1) # 0

\* a \div d and a % d for 0 < d < 2^21
BigDivMod(a, d) ==
    LET n == Len(a)
        rest[i \in 1..(n + 1)] == IF i = n + 1 THEN 0 ELSE (rest[i + 1] * 1024 + a[i]) % d
    IN [q |-> BigTrim([i \in 1..n |-> (rest[i + 1] * 1024 + a[i]) \div d]), r |-> rest[1]]

FZero == <<1, <<>>, 0>>

\* the float of s * m * 2^e, m odd or not
FNorm(s, m, e) == IF m = <<>> THEN FZero ELSE <<s, Calc("BigShr", <<m, Calc("BigZeros", <<m>>)>>), e + Calc("BigZeros", <<m>>)>>

\* the float nearest to s * m * 2^e, or to a number just above it in
\* magnitude (above: a remainder was dropped): 53 binary digits are kept, a
\* tie goes to the even one
FRoundAt(s, m, e, above, k) ==
    LET top == Calc("BigShr", <<m, k>>)
        rest == Calc("BigSub", <<m, Calc("BigShl", <<top, k>>)>>)
        half == Calc("BigShl", <<<<1>>, k - 1>>)
        up == Calc("BigLt", <<half, rest>>) \/ (rest = half /\ (above \/ BigIsOdd(top)))
    IN Calc("FNorm", <<s, IF up THEN Calc("BigAdd", <<top, <<1>>>>) ELSE top, e + k>>)

FRound(s, m, e, above) ==
    IF Calc("BigBits", <<m>>) <= 53 THEN Calc("FNorm", <<s, m, e>>) ELSE Calc("FRoundAt", <<s, m, e, above, Calc("BigBits", <<m>>) - 53>>)

\* x / k for an integer 0 < k < 2^21, rounded once
FDivInt(x, k) ==
    LET need == 56 + BitsOf(k) - Calc("BigBits", <<x[2]>>)
        g == IF need > 0 THEN need ELSE 0
        qr == Calc("BigDivMod", <<Calc("BigShl", <<x[2], g>>), k>>)
    IN IF x[2] = <<>> THEN FZero ELSE Calc("FRound", <<x[1], qr.q, x[3] - g, qr.r # 0>>)

\* the number a float stands for: <<n, d>> is the float nearest to n/d
ToFloat(a) ==
    IF Len(a) = 3 THEN a
    ELSE IF a[1] = 0 THEN FZero
    ELSE IF a[2] \in SmallPowers THEN Calc("FNorm", <<IF a[1] < 0 THEN -1 ELSE 1, BigOfInt(Abs(a[1])), -(CHOOSE k \in 0..10 : 2^k = a[2])>>)
    ELSE Calc("FDivInt", <<<<IF a[1] < 0 THEN -1 ELSE 1, BigOfInt(Abs(a[1])), 0>>, a[2]>>)

\* the way a float is written: <<n, d>> when Simple
Float(x) ==
    IF x[2] = <<>> THEN <<0, 1>>
    ELSE IF x[3] >= -10 /\ Calc("BigBits", <<x[2]>>) + (IF x[3] > 0 THEN x[3] ELSE 0) <= 20
         THEN IF x[3] >= 0 THEN <<x[1] * BigToInt(x[2]) * 2^x[3], 1>> ELSE <<x[1] * BigToInt(x[2]), 2^(-x[3])>>
         ELSE x

\* x + y, rounded once
FAdd(x, y) ==
    LET e == IF x[3] < y[3] THEN x[3] ELSE y[3]
        a == Calc("BigShl", <<x[2], x[3] - e>>)
        b == Calc("BigShl", <<y[2], y[3] - e>>)
    IN IF x[2] = <<>> THEN y
       ELSE IF y[2] = <<>> THEN x
       ELSE IF x[1] = y[1] THEN Calc("FRound", <<x[1], Calc("BigAdd", <<a, b>>), e, FALSE>>)
       ELSE IF a = b THEN FZero
       ELSE IF Calc("BigLt", <<b, a>>) THEN Calc("FRound", <<x[1], Calc("BigSub", <<a, b>>), e, FALSE>>)
       ELSE Calc("FRound", <<y[1], Calc("BigSub", <<b, a>>), e, FALSE>>)

\* |x| < |y| for x, y # 0: by the place of the leading digit, then digit
\* by digit
FBelow(x, y) ==
    LET e == IF x[3] < y[3] THEN x[3] ELSE y[3]
        px == Calc("BigBits", <<x[2]>>) + x[3]
        py == Calc("BigBits", <<y[2]>>) + y[3]
    IN IF px # py THEN px < py ELSE Calc("BigLt", <<Calc("BigShl", <<x[2], x[3] - e>>), Calc("BigShl", <<y[2], y[3] - e>>)>>)

\* x < y
FLt(x, y) ==
    LET sx == IF x[2] = <<>> THEN 0 ELSE x[1]
        sy == IF y[2] = <<>> THEN 0 ELSE y[1]
    IN IF sx # sy THEN sx < sy ELSE IF sx = 0 THEN FALSE ELSE IF sx = 1 THEN Calc("FBelow", <<x, y>>) ELSE Calc("FBelow", <<y, x>>)

\* -x
FNeg(x) == <<-x[1], x[2], x[3]>>

\* round(x, 1) of a float x >= 0 below 2^27: ten times x is cut at the
\* binary point and rounded to the nearest whole, a tie going to the even one
FRoundTenth(f) ==
    LET tenfold == Calc("BigAdd", <<Calc("BigShl", <<f[2], 3>>), Calc("BigShl", <<f[2], 1>>)>>)
        k == IF f[3] < 0 THEN -f[3] ELSE 0
        whole == IF f[3] < 0 THEN Calc("BigShr", <<tenfold, k>>) ELSE Calc("BigShl", <<tenfold, f[3]>>)
        rest == Calc("BigSub", <<tenfold, Calc("BigShl", <<whole, k>>)>>)
        half == Calc("BigShl", <<<<1>>, k - 1>>)
        up == k > 0 /\ (Calc("BigLt", <<half, rest>>) \/ (rest = half /\ BigIsOdd(whole)))
    IN Rat(BigToInt(whole) + (IF up THEN 1 ELSE 0), 10)

\* float(x): the way the float of x is written
AsFloat(a) == IF Len(a) = 3 \/ Simple(a) THEN a ELSE Calc("Float", <<Calc("ToFloat", <<a>>)>>)

\* The source's arithmetic.  Two Simple floats are added, subtracted and
\* compared as the fractions they are; anything else is computed digit by
\* digit and rounded as the interpreter rounds.
Added(a, b) ==
    IF Simple(a) /\ Simple(b) /\ Simple(Rat(a[1] * b[2] + b[1] * a[2], a[2] * b[2]))
    THEN Rat(a[1] * b[2] + b[1] * a[2], a[2] * b[2])
    ELSE Calc("Float", <<Calc("FAdd", <<Calc("ToFloat", <<a>>), Calc("ToFloat", <<b>>)>>)>>)

Subtracted(a, b) ==
    IF Simple(a) /\ Simple(b) /\ Simple(Rat(a[1] * b[2] - b[1] * a[2], a[2] * b[2]))
    THEN Rat(a[1] * b[2] - b[1] * a[2], a[2] * b[2])
    ELSE Calc("Float", <<Calc("FAdd", <<Calc("ToFloat", <<a>>), FNeg(Calc("ToFloat", <<b>>))>>)>>)

\* a / k for an integer k > 0
Divided(a, k) ==
    IF Simple(a) /\ Simple(Rat(a[1], a[2] * k)) THEN Rat(a[1], a[2] * k) ELSE Calc("Float", <<Calc("FDivInt", <<Calc("ToFloat", <<a>>), k>>)>>)

\* a < b
Less(a, b) == IF Simple(a) /\ Simple(b) THEN a[1] * b[2] < b[1] * a[2] ELSE Calc("FLt", <<Calc("ToFloat", <<a>>), Calc("ToFloat", <<b>>)>>)

\* float(a), a + b, -a, a - b, a / k, a <= b, a < b of the source
FloatOf(a) == Calc("float", <<a>>)
RAdd(a, b) == Calc("+", <<a, b>>)
RNeg(a) == IF Len(a) = 2 THEN <<-a[1], a[2]>> ELSE <<-a[1], a[2], a[3]>>
RSub(a, b) == Calc("-", <<a, b>>)
RDiv(a, k) == Calc("/", <<a, k>>)
RLe(a, b) == ~Calc("<", <<b, a>>)
RLt(a, b) == Calc("<", <<a, b>>)
RAbs(a) == IF Len(a) = 2 THEN <<Abs(a[1]), a[2]>> ELSE <<1, a[2], a[3]>>
RMax(a, b) == IF RLt(a, b) THEN b ELSE a
RMin(a, b) == IF RLt(b, a) THEN b ELSE a

\* sum(s): the items are added from the left, starting from 0
RECURSIVE RSum(_)
RSum(s) == IF s = <<>> THEN Q(0) ELSE RAdd(RSum(SubSeq(s, 1, Len(s) - 1)), s[Len(s)])

\* min(s), max(s) of a non-empty sequence
RECURSIVE RMinOf(_)
RMinOf(s) == IF Len(s) = 1 THEN s[1] ELSE RMin(s[1], RMinOf(Tail(s)))
RECURSIVE RMaxOf(_)
RMaxOf(s) == IF Len(s) = 1 THEN s[1] ELSE RMax(s[1], RMaxOf(Tail(s)))

\* sum(s) / len(s)
RMean(s) == RDiv(RSum(s), Len(s))

\* ------------------------------------------------------------------------
\* Sequences
\* ------------------------------------------------------------------------

Range(s) == {s[i] : i \in 1..Len(s)}

RECURSIVE Flatten(_)
Flatten(ss) == IF ss = <<>> THEN <<>> ELSE Head(ss) \o Flatten(Tail(ss))

\* [s[i] for i in idx]
Pick(s, idx) == [k \in 1..Len(idx) |-> s[idx[k]]]

\* the indices 1..n in ascending order that lie in the set keep
IndicesIn(n, keep) ==
    LET kept == {i \in 1..n : i \in keep}
    IN [p \in 1..Cardinality(kept) |-> CHOOSE i \in kept : Cardinality({j \in kept : j < i}) = p - 1]

\* tuples of rationals compared as Python compares tuples of floats
RECURSIVE KeyLt(_, _)
KeyLt(a, b) == IF a = <<>> \/ b = <<>> THEN a = <<>> /\ b # <<>> ELSE IF RLt(a[1], b[1]) THEN TRUE ELSE IF RLt(b[1], a[1]) THEN FALSE ELSE KeyLt(Tail(a), Tail(b))

\* sorted(range(n), key=keys): the stable order of the positions 1..Len(keys)
SortedIndices(keys) ==
    LET n == Len(keys)
        rank(i) == Cardinality({j \in 1..n : KeyLt(keys[j], keys[i]) \/ (~KeyLt(keys[i], keys[j]) /\ j < i)}) + 1
    IN [p \in 1..n |-> CHOOSE i \in 1..n : rank(i) = p]

\* ------------------------------------------------------------------------
\* Characters
\* ------------------------------------------------------------------------

\* A character is a one-character string.  The characters U+0020..U+007E
\* are spelled by themselves (the grave accent, which a module cannot spell,
\* by its code point).  Every other character may be spelled by its code
\* point ("U+20B9", "U+1F600"), and those up to U+00FF by themselves as well.

\* the characters U+0020..U+007E in code point order
Ascii == <<" ","!","\"","#","$","%","&","'","(",")","*","+",",","-",".","/","0","1","2","3","4","5","6","7","8","9",":",";","<","=",">","?","@","A","B","C","D","E","F","G","H","I","J","K","L","M","N","O","P","Q","R","S","T","U","V","W","X","Y","Z","[","\\","]","^","_","U+0060","a","b","c","d","e","f","g","h","i","j","k","l","m","n","o","p","q","r","s","t","u","v","w","x","y","z","{","|","}","~">>

PlainChars == Range(Ascii)

\* the characters U+0001..U+00FF spelled by themselves, in code point order
Latin1 == <<
    "", "", "", "", "", "", "", "", "\t", "\n", "", "\f", "\r", "", "", "",
    "", "", "", "", "", "", "", "", "", "", "", "", "", "", "", " ",
    "!", "\"", "#", "$", "%", "&", "'", "(", ")", "*", "+", ",", "-", ".", "/", "0",
    "1", "2", "3", "4", "5", "6", "7", "8", "9", ":", ";", "<", "=", ">", "?", "@",
    "A", "B", "C", "D", "E", "F", "G", "H", "I", "J", "K", "L", "M", "N", "O", "P",
    "Q", "R", "S", "T", "U", "V", "W", "X", "Y", "Z", "[", "\\", "]", "^", "_", "U+0060",
    "a", "b", "c", "d", "e", "f", "g", "h", "i", "j", "k", "l", "m", "n", "o", "p",
    "q", "r", "s", "t", "u", "v", "w", "x", "y", "z", "{", "|", "}", "~", "", "",
    "", "", "", "", "", "", "", "", "", "", "", "", "", "", "", "",
    "", "", "", "", "", "", "", "", "", "", "", "", "", "", "", " ",
    "¡", "¢", "£", "¤", "¥", "¦", "§", "¨", "©", "ª", "«", "¬", "­", "®", "¯", "°",
    "±", "²", "³", "´", "µ", "¶", "·", "¸", "¹", "º", "»", "¼", "½", "¾", "¿", "À",
    "Á", "Â", "Ã", "Ä", "Å", "Æ", "Ç", "È", "É", "Ê", "Ë", "Ì", "Í", "Î", "Ï", "Ð",
    "Ñ", "Ò", "Ó", "Ô", "Õ", "Ö", "×", "Ø", "Ù", "Ú", "Û", "Ü", "Ý", "Þ", "ß", "à",
    "á", "â", "ã", "ä", "å", "æ", "ç", "è", "é", "ê", "ë", "ì", "í", "î", "ï", "ð",
    "ñ", "ò", "ó", "ô", "õ", "ö", "÷", "ø", "ù", "ú", "û", "ü", "ý", "þ", "ÿ">>

LiteralChars == Range(Latin1)

HexDigits == <<"0","1","2","3","4","5","6","7","8","9","A","B","C","D","E","F">>
Hex4(n) == HexDigits[((n \div 4096) % 16) + 1] \o HexDigits[((n \div 256) % 16) + 1] \o HexDigits[((n \div 16) % 16) + 1] \o HexDigits[(n % 16) + 1]

\* the spelling of code point n by its number
CharName(n) == "U+" \o (IF n < 65536 THEN "" ELSE IF n < 1048576 THEN HexDigits[(n \div 65536) + 1] ELSE "10") \o Hex4(n % 65536)

\* ord(c); the one character left without a spelling of its own is U+0000
CodePoint(c) ==
    IF c \in PlainChars THEN 31 + CHOOSE i \in 1..Len(Ascii) : Ascii[i] = c
    ELSE IF c = "\t" THEN 9 ELSE IF c = "\n" THEN 10 ELSE IF c = "U+2013" THEN 8211 ELSE IF c = "U+20B9" THEN 8377
    ELSE IF c \in LiteralChars THEN CHOOSE n \in 1..255 : Latin1[n] = c
    ELSE IF \E n \in 0..1114111 : CharName(n) = c THEN CHOOSE n \in 0..1114111 : CharName(n) = c
    ELSE 0

\* chr(n), spelled the way the character c is spelled
CharAs(n, c) ==
    IF n \in 32..126 THEN Ascii[n - 31]
    ELSE IF n \in 1..255 /\ c \in LiteralChars THEN Latin1[n]
    ELSE CharName(n)

\* n lies in one of the ranges <<first, last>>
InRanges(n, ranges) == \E k \in 1..Len(ranges) : ranges[k][1] <= n /\ n <= ranges[k][2]

\* The classes of the interpreter's character database (Unicode 14.0.0),
\* as ranges of code points.

\* str.isspace(), the characters str.strip() removes
SpaceRanges == <<
    <<9, 13>>, <<28, 32>>, <<133, 133>>, <<160, 160>>, <<5760, 5760>>, <<8192, 8202>>, <<8232, 8233>>, <<8239, 8239>>,
    <<8287, 8287>>, <<12288, 12288>>>>

\* the line boundaries of str.splitlines()
LineBreakPoints == {10, 11, 12, 13, 28, 29, 30, 133, 8232, 8233}

\* str.isalpha()
AlphaRanges == <<
    <<65, 90>>, <<97, 122>>, <<170, 170>>, <<181, 181>>, <<186, 186>>, <<192, 214>>, <<216, 246>>, <<248, 705>>,
    <<710, 721>>, <<736, 740>>, <<748, 748>>, <<750, 750>>, <<880, 884>>, <<886, 887>>, <<890, 893>>, <<895, 895>>,
    <<902, 902>>, <<904, 906>>, <<908, 908>>, <<910, 929>>, <<931, 1013>>, <<1015, 1153>>, <<1162, 1327>>, <<1329, 1366>>,
    <<1369, 1369>>, <<1376, 1416>>, <<1488, 1514>>, <<1519, 1522>>, <<1568, 1610>>, <<1646, 1647>>, <<1649, 1747>>, <<1749, 1749>>,
    <<1765, 1766>>, <<1774, 1775>>, <<1786, 1788>>, <<1791, 1791>>, <<1808, 1808>>, <<1810, 1839>>, <<1869, 1957>>, <<1969, 1969>>,
    <<1994, 2026>>, <<2036, 2037>>, <<2042, 2042>>, <<2048, 2069>>, <<2074, 2074>>, <<2084, 2084>>, <<2088, 2088>>, <<2112, 2136>>,
    <<2144, 2154>>, <<2160, 2183>>, <<2185, 2190>>, <<2208, 2249>>, <<2308, 2361>>, <<2365, 2365>>, <<2384, 2384>>, <<2392, 2401>>,
    <<2417, 2432>>, <<2437, 2444>>, <<2447, 2448>>, <<2451, 2472>>, <<2474, 2480>>, <<2482, 2482>>, <<2486, 2489>>, <<2493, 2493>>,
    <<2510, 2510>>, <<2524, 2525>>, <<2527, 2529>>, <<2544, 2545>>, <<2556, 2556>>, <<2565, 2570>>, <<2575, 2576>>, <<2579, 2600>>,
    <<2602, 2608>>, <<2610, 2611>>, <<2613, 2614>>, <<2616, 2617>>, <<2649, 2652>>, <<2654, 2654>>, <<2674, 2676>>, <<2693, 2701>>,
    <<2703, 2705>>, <<2707, 2728>>, <<2730, 2736>>, <<2738, 2739>>, <<2741, 2745>>, <<2749, 2749>>, <<2768, 2768>>, <<2784, 2785>>,
    <<2809, 2809>>, <<2821, 2828>>, <<2831, 2832>>, <<2835, 2856>>, <<2858, 2864>>, <<2866, 2867>>, <<2869, 2873>>, <<2877, 2877>>,
    <<2908, 2909>>, <<2911, 2913>>, <<2929, 2929>>, <<2947, 2947>>, <<2949, 2954>>, <<2958, 2960>>, <<2962, 2965>>, <<2969, 2970>>,
    <<2972, 2972>>, <<2974, 2975>>, <<2979, 2980>>, <<2984, 2986>>, <<2990, 3001>>, <<3024, 3024>>, <<3077, 3084>>, <<3086, 3088>>,
    <<3090, 3112>>, <<3114, 3129>>, <<3133, 3133>>, <<3160, 3162>>, <<3165, 3165>>, <<3168, 3169>>, <<3200, 3200>>, <<3205, 3212>>,
    <<3214, 3216>>, <<3218, 3240>>, <<3242, 3251>>, <<3253, 3257>>, <<3261, 3261>>, <<3293, 3294>>, <<3296, 3297>>, <<3313, 3314>>,
    <<3332, 3340>>, <<3342, 3344>>, <<3346, 3386>>, <<3389, 3389>>, <<3406, 3406>>, <<3412, 3414>>, <<3423, 3425>>, <<3450, 3455>>,
    <<3461, 3478>>, <<3482, 3505>>, <<3507, 3515>>, <<3517, 3517>>, <<3520, 3526>>, <<3585, 3632>>, <<3634, 3635>>, <<3648, 3654>>,
    <<3713, 3714>>, <<3716, 3716>>, <<3718, 3722>>, <<3724, 3747>>, <<3749, 3749>>, <<3751, 3760>>, <<3762, 3763>>, <<3773, 3773>>,
    <<3776, 3780>>, <<3782, 3782>>, <<3804, 3807>>, <<3840, 3840>>, <<3904, 3911>>, <<3913, 3948>>, <<3976, 3980>>, <<4096, 4138>>,
    <<4159, 4159>>, <<4176, 4181>>, <<4186, 4189>>, <<4193, 4193>>, <<4197, 4198>>, <<4206, 4208>>, <<4213, 4225>>, <<4238, 4238>>,
    <<4256, 4293>>, <<4295, 4295>>, <<4301, 4301>>, <<4304, 4346>>, <<4348, 4680>>, <<4682, 4685>>, <<4688, 4694>>, <<4696, 4696>>,
    <<4698, 4701>>, <<4704, 4744>>, <<4746, 4749>>, <<4752, 4784>>, <<4786, 4789>>, <<4792, 4798>>, <<4800, 4800>>, <<4802, 4805>>,
    <<4808, 4822>>, <<4824, 4880>>, <<4882, 4885>>, <<4888, 4954>>, <<4992, 5007>>, <<5024, 5109>>, <<5112, 5117>>, <<5121, 5740>>,
    <<5743, 5759>>, <<5761, 5786>>, <<5792, 5866>>, <<5873, 5880>>, <<5888, 5905>>, <<5919, 5937>>, <<5952, 5969>>, <<5984, 5996>>,
    <<5998, 6000>>, <<6016, 6067>>, <<6103, 6103>>, <<6108, 6108>>, <<6176, 6264>>, <<6272, 6276>>, <<6279, 6312>>, <<6314, 6314>>,
    <<6320, 6389>>, <<6400, 6430>>, <<6480, 6509>>, <<6512, 6516>>, <<6528, 6571>>, <<6576, 6601>>, <<6656, 6678>>, <<6688, 6740>>,
    <<6823, 6823>>, <<6917, 6963>>, <<6981, 6988>>, <<7043, 7072>>, <<7086, 7087>>, <<7098, 7141>>, <<7168, 7203>>, <<7245, 7247>>,
    <<7258, 7293>>, <<7296, 7304>>, <<7312, 7354>>, <<7357, 7359>>, <<7401, 7404>>, <<7406, 7411>>, <<7413, 7414>>, <<7418, 7418>>,
    <<7424, 7615>>, <<7680, 7957>>, <<7960, 7965>>, <<7968, 8005>>, <<8008, 8013>>, <<8016, 8023>>, <<8025, 8025>>, <<8027, 8027>>,
    <<8029, 8029>>, <<8031, 8061>>, <<8064, 8116>>, <<8118, 8124>>, <<8126, 8126>>, <<8130, 8132>>, <<8134, 8140>>, <<8144, 8147>>,
    <<8150, 8155>>, <<8160, 8172>>, <<8178, 8180>>, <<8182, 8188>>, <<8305, 8305>>, <<8319, 8319>>, <<8336, 8348>>, <<8450, 8450>>,
    <<8455, 8455>>, <<8458, 8467>>, <<8469, 8469>>, <<8473, 8477>>, <<8484, 8484>>, <<8486, 8486>>, <<8488, 8488>>, <<8490, 8493>>,
    <<8495, 8505>>, <<8508, 8511>>, <<8517, 8521>>, <<8526, 8526>>, <<8579, 8580>>, <<11264, 11492>>, <<11499, 11502>>, <<11506, 11507>>,
    <<11520, 11557>>, <<11559, 11559>>, <<11565, 11565>>, <<11568, 11623>>, <<11631, 11631>>, <<11648, 11670>>, <<11680, 11686>>, <<11688, 11694>>,
    <<11696, 11702>>, <<11704, 11710>>, <<11712, 11718>>, <<11720, 11726>>, <<11728, 11734>>, <<11736, 11742>>, <<11823, 11823>>, <<12293, 12294>>,
    <<12337, 12341>>, <<12347, 12348>>, <<12353, 12438>>, <<12445, 12447>>, <<12449, 12538>>, <<12540, 12543>>, <<12549, 12591>>, <<12593, 12686>>,
    <<12704, 12735>>, <<12784, 12799>>, <<13312, 19903>>, <<19968, 42124>>, <<42192, 42237>>, <<42240, 42508>>, <<42512, 42527>>, <<42538, 42539>>,
    <<42560, 42606>>, <<42623, 42653>>, <<42656, 42725>>, <<42775, 42783>>, <<42786, 42888>>, <<42891, 42954>>, <<42960, 42961>>, <<42963, 42963>>,
    <<42965, 42969>>, <<42994, 43009>>, <<43011, 43013>>, <<43015, 43018>>, <<43020, 43042>>, <<43072, 43123>>, <<43138, 43187>>, <<43250, 43255>>,
    <<43259, 43259>>, <<43261, 43262>>, <<43274, 43301>>, <<43312, 43334>>, <<43360, 43388>>, <<43396, 43442>>, <<43471, 43471>>, <<43488, 43492>>,
    <<43494, 43503>>, <<43514, 43518>>, <<43520, 43560>>, <<43584, 43586>>, <<43588, 43595>>, <<43616, 43638>>, <<43642, 43642>>, <<43646, 43695>>,
    <<43697, 43697>>, <<43701, 43702>>, <<43705, 43709>>, <<43712, 43712>>, <<43714, 43714>>, <<43739, 43741>>, <<43744, 43754>>, <<43762, 43764>>,
    <<43777, 43782>>, <<43785, 43790>>, <<43793, 43798>>, <<43808, 43814>>, <<43816, 43822>>, <<43824, 43866>>, <<43868, 43881>>, <<43888, 44002>>,
    <<44032, 55203>>, <<55216, 55238>>, <<55243, 55291>>, <<63744, 64109>>, <<64112, 64217>>, <<64256, 64262>>, <<64275, 64279>>, <<64285, 64285>>,
    <<64287, 64296>>, <<64298, 64310>>, <<64312, 64316>>, <<64318, 64318>>, <<64320, 64321>>, <<64323, 64324>>, <<64326, 64433>>, <<64467, 64829>>,
    <<64848, 64911>>, <<64914, 64967>>, <<65008, 65019>>, <<65136, 65140>>, <<65142, 65276>>, <<65313, 65338>>, <<65345, 65370>>, <<65382, 65470>>,
    <<65474, 65479>>, <<65482, 65487>>, <<65490, 65495>>, <<65498, 65500>>, <<65536, 65547>>, <<65549, 65574>>, <<65576, 65594>>, <<65596, 65597>>,
    <<65599, 65613>>, <<65616, 65629>>, <<65664, 65786>>, <<66176, 66204>>, <<66208, 66256>>, <<66304, 66335>>, <<66349, 66368>>, <<66370, 66377>>,
    <<66384, 66421>>, <<66432, 66461>>, <<66464, 66499>>, <<66504, 66511>>, <<66560, 66717>>, <<66736, 66771>>, <<66776, 66811>>, <<66816, 66855>>,
    <<66864, 66915>>, <<66928, 66938>>, <<66940, 66954>>, <<66956, 66962>>, <<66964, 66965>>, <<66967, 66977>>, <<66979, 66993>>, <<66995, 67001>>,
    <<67003, 67004>>, <<67072, 67382>>, <<67392, 67413>>, <<67424, 67431>>, <<67456, 67461>>, <<67463, 67504>>, <<67506, 67514>>, <<67584, 67589>>,
    <<67592, 67592>>, <<67594, 67637>>, <<67639, 67640>>, <<67644, 67644>>, <<67647, 67669>>, <<67680, 67702>>, <<67712, 67742>>, <<67808, 67826>>,
    <<67828, 67829>>, <<67840, 67861>>, <<67872, 67897>>, <<67968, 68023>>, <<68030, 68031>>, <<68096, 68096>>, <<68112, 68115>>, <<68117, 68119>>,
    <<68121, 68149>>, <<68192, 68220>>, <<68224, 68252>>, <<68288, 68295>>, <<68297, 68324>>, <<68352, 68405>>, <<68416, 68437>>, <<68448, 68466>>,
    <<68480, 68497>>, <<68608, 68680>>, <<68736, 68786>>, <<68800, 68850>>, <<68864, 68899>>, <<69248, 69289>>, <<69296, 69297>>, <<69376, 69404>>,
    <<69415, 69415>>, <<69424, 69445>>, <<69488, 69505>>, <<69552, 69572>>, <<69600, 69622>>, <<69635, 69687>>, <<69745, 69746>>, <<69749, 69749>>,
    <<69763, 69807>>, <<69840, 69864>>, <<69891, 69926>>, <<69956, 69956>>, <<69959, 69959>>, <<69968, 70002>>, <<70006, 70006>>, <<70019, 70066>>,
    <<70081, 70084>>, <<70106, 70106>>, <<70108, 70108>>, <<70144, 70161>>, <<70163, 70187>>, <<70272, 70278>>, <<70280, 70280>>, <<70282, 70285>>,
    <<70287, 70301>>, <<70303, 70312>>, <<70320, 70366>>, <<70405, 70412>>, <<70415, 70416>>, <<70419, 70440>>, <<70442, 70448>>, <<70450, 70451>>,
    <<70453, 70457>>, <<70461, 70461>>, <<70480, 70480>>, <<70493, 70497>>, <<70656, 70708>>, <<70727, 70730>>, <<70751, 70753>>, <<70784, 70831>>,
    <<70852, 70853>>, <<70855, 70855>>, <<71040, 71086>>, <<71128, 71131>>, <<71168, 71215>>, <<71236, 71236>>, <<71296, 71338>>, <<71352, 71352>>,
    <<71424, 71450>>, <<71488, 71494>>, <<71680, 71723>>, <<71840, 71903>>, <<71935, 71942>>, <<71945, 71945>>, <<71948, 71955>>, <<71957, 71958>>,
    <<71960, 71983>>, <<71999, 71999>>, <<72001, 72001>>, <<72096, 72103>>, <<72106, 72144>>, <<72161, 72161>>, <<72163, 72163>>, <<72192, 72192>>,
    <<72203, 72242>>, <<72250, 72250>>, <<72272, 72272>>, <<72284, 72329>>, <<72349, 72349>>, <<72368, 72440>>, <<72704, 72712>>, <<72714, 72750>>,
    <<72768, 72768>>, <<72818, 72847>>, <<72960, 72966>>, <<72968, 72969>>, <<72971, 73008>>, <<73030, 73030>>, <<73056, 73061>>, <<73063, 73064>>,
    <<73066, 73097>>, <<73112, 73112>>, <<73440, 73458>>, <<73648, 73648>>, <<73728, 74649>>, <<74880, 75075>>, <<77712, 77808>>, <<77824, 78894>>,
    <<82944, 83526>>, <<92160, 92728>>, <<92736, 92766>>, <<92784, 92862>>, <<92880, 92909>>, <<92928, 92975>>, <<92992, 92995>>, <<93027, 93047>>,
    <<93053, 93071>>, <<93760, 93823>>, <<93952, 94026>>, <<94032, 94032>>, <<94099, 94111>>, <<94176, 94177>>, <<94179, 94179>>, <<94208, 100343>>,
    <<100352, 101589>>, <<101632, 101640>>, <<110576, 110579>>, <<110581, 110587>>, <<110589, 110590>>, <<110592, 110882>>, <<110928, 110930>>, <<110948, 110951>>,
    <<110960, 111355>>, <<113664, 113770>>, <<113776, 113788>>, <<113792, 113800>>, <<113808, 113817>>, <<119808, 119892>>, <<119894, 119964>>, <<119966, 119967>>,
    <<119970, 119970>>, <<119973, 119974>>, <<119977, 119980>>, <<119982, 119993>>, <<119995, 119995>>, <<119997, 120003>>, <<120005, 120069>>, <<120071, 120074>>,
    <<120077, 120084>>, <<120086, 120092>>, <<120094, 120121>>, <<120123, 120126>>, <<120128, 120132>>, <<120134, 120134>>, <<120138, 120144>>, <<120146, 120485>>,
    <<120488, 120512>>, <<120514, 120538>>, <<120540, 120570>>, <<120572, 120596>>, <<120598, 120628>>, <<120630, 120654>>, <<120656, 120686>>, <<120688, 120712>>,
    <<120714, 120744>>, <<120746, 120770>>, <<120772, 120779>>, <<122624, 122654>>, <<123136, 123180>>, <<123191, 123197>>, <<123214, 123214>>, <<123536, 123565>>,
    <<123584, 123627>>, <<124896, 124902>>, <<124904, 124907>>, <<124909, 124910>>, <<124912, 124926>>, <<124928, 125124>>, <<125184, 125251>>, <<125259, 125259>>,
    <<126464, 126467>>, <<126469, 126495>>, <<126497, 126498>>, <<126500, 126500>>, <<126503, 126503>>, <<126505, 126514>>, <<126516, 126519>>, <<126521, 126521>>,
    <<126523, 126523>>, <<126530, 126530>>, <<126535, 126535>>, <<126537, 126537>>, <<126539, 126539>>, <<126541, 126543>>, <<126545, 126546>>, <<126548, 126548>>,
    <<126551, 126551>>, <<126553, 126553>>, <<126555, 126555>>, <<126557, 126557>>, <<126559, 126559>>, <<126561, 126562>>, <<126564, 126564>>, <<126567, 126570>>,
    <<126572, 126578>>, <<126580, 126583>>, <<126585, 126588>>, <<126590, 126590>>, <<126592, 126601>>, <<126603, 126619>>, <<126625, 126627>>, <<126629, 126633>>,
    <<126635, 126651>>, <<131072, 173791>>, <<173824, 177976>>, <<177984, 178205>>, <<178208, 183969>>, <<183984, 191456>>, <<194560, 195101>>, <<196608, 201546>>>>

\* str.isdigit()
DigitRanges == <<
    <<48, 57>>, <<178, 179>>, <<185, 185>>, <<1632, 1641>>, <<1776, 1785>>, <<1984, 1993>>, <<2406, 2415>>, <<2534, 2543>>,
    <<2662, 2671>>, <<2790, 2799>>, <<2918, 2927>>, <<3046, 3055>>, <<3174, 3183>>, <<3302, 3311>>, <<3430, 3439>>, <<3558, 3567>>,
    <<3664, 3673>>, <<3792, 3801>>, <<3872, 3881>>, <<4160, 4169>>, <<4240, 4249>>, <<4969, 4977>>, <<6112, 6121>>, <<6160, 6169>>,
    <<6470, 6479>>, <<6608, 6618>>, <<6784, 6793>>, <<6800, 6809>>, <<6992, 7001>>, <<7088, 7097>>, <<7232, 7241>>, <<7248, 7257>>,
    <<8304, 8304>>, <<8308, 8313>>, <<8320, 8329>>, <<9312, 9320>>, <<9332, 9340>>, <<9352, 9360>>, <<9450, 9450>>, <<9461, 9469>>,
    <<9471, 9471>>, <<10102, 10110>>, <<10112, 10120>>, <<10122, 10130>>, <<42528, 42537>>, <<43216, 43225>>, <<43264, 43273>>, <<43472, 43481>>,
    <<43504, 43513>>, <<43600, 43609>>, <<44016, 44025>>, <<65296, 65305>>, <<66720, 66729>>, <<68160, 68163>>, <<68912, 68921>>, <<69216, 69224>>,
    <<69714, 69722>>, <<69734, 69743>>, <<69872, 69881>>, <<69942, 69951>>, <<70096, 70105>>, <<70384, 70393>>, <<70736, 70745>>, <<70864, 70873>>,
    <<71248, 71257>>, <<71360, 71369>>, <<71472, 71481>>, <<71904, 71913>>, <<72016, 72025>>, <<72784, 72793>>, <<73040, 73049>>, <<73120, 73129>>,
    <<92768, 92777>>, <<92864, 92873>>, <<93008, 93017>>, <<120782, 120831>>, <<123200, 123209>>, <<123632, 123641>>, <<125264, 125273>>, <<127232, 127242>>,
    <<130032, 130041>>>>

\* str.isnumeric()
NumericRanges == <<
    <<48, 57>>, <<178, 179>>, <<185, 185>>, <<188, 190>>, <<1632, 1641>>, <<1776, 1785>>, <<1984, 1993>>, <<2406, 2415>>,
    <<2534, 2543>>, <<2548, 2553>>, <<2662, 2671>>, <<2790, 2799>>, <<2918, 2927>>, <<2930, 2935>>, <<3046, 3058>>, <<3174, 3183>>,
    <<3192, 3198>>, <<3302, 3311>>, <<3416, 3422>>, <<3430, 3448>>, <<3558, 3567>>, <<3664, 3673>>, <<3792, 3801>>, <<3872, 3891>>,
    <<4160, 4169>>, <<4240, 4249>>, <<4969, 4988>>, <<5870, 5872>>, <<6112, 6121>>, <<6128, 6137>>, <<6160, 6169>>, <<6470, 6479>>,
    <<6608, 6618>>, <<6784, 6793>>, <<6800, 6809>>, <<6992, 7001>>, <<7088, 7097>>, <<7232, 7241>>, <<7248, 7257>>, <<8304, 8304>>,
    <<8308, 8313>>, <<8320, 8329>>, <<8528, 8578>>, <<8581, 8585>>, <<9312, 9371>>, <<9450, 9471>>, <<10102, 10131>>, <<11517, 11517>>,
    <<12295, 12295>>, <<12321, 12329>>, <<12344, 12346>>, <<12690, 12693>>, <<12832, 12841>>, <<12872, 12879>>, <<12881, 12895>>, <<12928, 12937>>,
    <<12977, 12991>>, <<13317, 13317>>, <<13443, 13443>>, <<14378, 14378>>, <<15181, 15181>>, <<19968, 19968>>, <<19971, 19971>>, <<19975, 19975>>,
    <<19977, 19977>>, <<20061, 20061>>, <<20108, 20108>>, <<20116, 20116>>, <<20118, 20118>>, <<20159, 20160>>, <<20191, 20191>>, <<20200, 20200>>,
    <<20237, 20237>>, <<20336, 20336>>, <<20740, 20740>>, <<20806, 20806>>, <<20841, 20841>>, <<20843, 20843>>, <<20845, 20845>>, <<21313, 21313>>,
    <<21315, 21317>>, <<21324, 21324>>, <<21441, 21444>>, <<22235, 22235>>, <<22769, 22769>>, <<22777, 22777>>, <<24186, 24186>>, <<24318, 24319>>,
    <<24332, 24334>>, <<24336, 24336>>, <<25342, 25342>>, <<25420, 25420>>, <<26578, 26578>>, <<28422, 28422>>, <<29590, 29590>>, <<30334, 30334>>,
    <<32902, 32902>>, <<33836, 33836>>, <<36014, 36014>>, <<36019, 36019>>, <<36144, 36144>>, <<38433, 38433>>, <<38470, 38470>>, <<38476, 38476>>,
    <<38520, 38520>>, <<38646, 38646>>, <<42528, 42537>>, <<42726, 42735>>, <<43056, 43061>>, <<43216, 43225>>, <<43264, 43273>>, <<43472, 43481>>,
    <<43504, 43513>>, <<43600, 43609>>, <<44016, 44025>>, <<63851, 63851>>, <<63859, 63859>>, <<63864, 63864>>, <<63922, 63922>>, <<63953, 63953>>,
    <<63955, 63955>>, <<63997, 63997>>, <<65296, 65305>>, <<65799, 65843>>, <<65856, 65912>>, <<65930, 65931>>, <<66273, 66299>>, <<66336, 66339>>,
    <<66369, 66369>>, <<66378, 66378>>, <<66513, 66517>>, <<66720, 66729>>, <<67672, 67679>>, <<67705, 67711>>, <<67751, 67759>>, <<67835, 67839>>,
    <<67862, 67867>>, <<68028, 68029>>, <<68032, 68047>>, <<68050, 68095>>, <<68160, 68168>>, <<68221, 68222>>, <<68253, 68255>>, <<68331, 68335>>,
    <<68440, 68447>>, <<68472, 68479>>, <<68521, 68527>>, <<68858, 68863>>, <<68912, 68921>>, <<69216, 69246>>, <<69405, 69414>>, <<69457, 69460>>,
    <<69573, 69579>>, <<69714, 69743>>, <<69872, 69881>>, <<69942, 69951>>, <<70096, 70105>>, <<70113, 70132>>, <<70384, 70393>>, <<70736, 70745>>,
    <<70864, 70873>>, <<71248, 71257>>, <<71360, 71369>>, <<71472, 71483>>, <<71904, 71922>>, <<72016, 72025>>, <<72784, 72812>>, <<73040, 73049>>,
    <<73120, 73129>>, <<73664, 73684>>, <<74752, 74862>>, <<92768, 92777>>, <<92864, 92873>>, <<93008, 93017>>, <<93019, 93025>>, <<93824, 93846>>,
    <<119520, 119539>>, <<119648, 119672>>, <<120782, 120831>>, <<123200, 123209>>, <<123632, 123641>>, <<125127, 125135>>, <<125264, 125273>>, <<126065, 126123>>,
    <<126125, 126127>>, <<126129, 126132>>, <<126209, 126253>>, <<126255, 126269>>, <<127232, 127244>>, <<130032, 130041>>, <<131073, 131073>>, <<131172, 131172>>,
    <<131298, 131298>>, <<131361, 131361>>, <<133418, 133418>>, <<133507, 133507>>, <<133516, 133516>>, <<133532, 133532>>, <<133866, 133866>>, <<133885, 133885>>,
    <<133913, 133913>>, <<140176, 140176>>, <<141720, 141720>>, <<146203, 146203>>, <<156269, 156269>>, <<194704, 194704>>>>

\* str.isprintable()
PrintableRanges == <<
    <<32, 126>>, <<161, 172>>, <<174, 887>>, <<890, 895>>, <<900, 906>>, <<908, 908>>, <<910, 929>>, <<931, 1327>>,
    <<1329, 1366>>, <<1369, 1418>>, <<1421, 1423>>, <<1425, 1479>>, <<1488, 1514>>, <<1519, 1524>>, <<1542, 1563>>, <<1565, 1756>>,
    <<1758, 1805>>, <<1808, 1866>>, <<1869, 1969>>, <<1984, 2042>>, <<2045, 2093>>, <<2096, 2110>>, <<2112, 2139>>, <<2142, 2142>>,
    <<2144, 2154>>, <<2160, 2190>>, <<2200, 2273>>, <<2275, 2435>>, <<2437, 2444>>, <<2447, 2448>>, <<2451, 2472>>, <<2474, 2480>>,
    <<2482, 2482>>, <<2486, 2489>>, <<2492, 2500>>, <<2503, 2504>>, <<2507, 2510>>, <<2519, 2519>>, <<2524, 2525>>, <<2527, 2531>>,
    <<2534, 2558>>, <<2561, 2563>>, <<2565, 2570>>, <<2575, 2576>>, <<2579, 2600>>, <<2602, 2608>>, <<2610, 2611>>, <<2613, 2614>>,
    <<2616, 2617>>, <<2620, 2620>>, <<2622, 2626>>, <<2631, 2632>>, <<2635, 2637>>, <<2641, 2641>>, <<2649, 2652>>, <<2654, 2654>>,
    <<2662, 2678>>, <<2689, 2691>>, <<2693, 2701>>, <<2703, 2705>>, <<2707, 2728>>, <<2730, 2736>>, <<2738, 2739>>, <<2741, 2745>>,
    <<2748, 2757>>, <<2759, 2761>>, <<2763, 2765>>, <<2768, 2768>>, <<2784, 2787>>, <<2790, 2801>>, <<2809, 2815>>, <<2817, 2819>>,
    <<2821, 2828>>, <<2831, 2832>>, <<2835, 2856>>, <<2858, 2864>>, <<2866, 2867>>, <<2869, 2873>>, <<2876, 2884>>, <<2887, 2888>>,
    <<2891, 2893>>, <<2901, 2903>>, <<2908, 2909>>, <<2911, 2915>>, <<2918, 2935>>, <<2946, 2947>>, <<2949, 2954>>, <<2958, 2960>>,
    <<2962, 2965>>, <<2969, 2970>>, <<2972, 2972>>, <<2974, 2975>>, <<2979, 2980>>, <<2984, 2986>>, <<2990, 3001>>, <<3006, 3010>>,
    <<3014, 3016>>, <<3018, 3021>>, <<3024, 3024>>, <<3031, 3031>>, <<3046, 3066>>, <<3072, 3084>>, <<3086, 3088>>, <<3090, 3112>>,
    <<3114, 3129>>, <<3132, 3140>>, <<3142, 3144>>, <<3146, 3149>>, <<3157, 3158>>, <<3160, 3162>>, <<3165, 3165>>, <<3168, 3171>>,
    <<3174, 3183>>, <<3191, 3212>>, <<3214, 3216>>, <<3218, 3240>>, <<3242, 3251>>, <<3253, 3257>>, <<3260, 3268>>, <<3270, 3272>>,
    <<3274, 3277>>, <<3285, 3286>>, <<3293, 3294>>, <<3296, 3299>>, <<3302, 3311>>, <<3313, 3314>>, <<3328, 3340>>, <<3342, 3344>>,
    <<3346, 3396>>, <<3398, 3400>>, <<3402, 3407>>, <<3412, 3427>>, <<3430, 3455>>, <<3457, 3459>>, <<3461, 3478>>, <<3482, 3505>>,
    <<3507, 3515>>, <<3517, 3517>>, <<3520, 3526>>, <<3530, 3530>>, <<3535, 3540>>, <<3542, 3542>>, <<3544, 3551>>, <<3558, 3567>>,
    <<3570, 3572>>, <<3585, 3642>>, <<3647, 3675>>, <<3713, 3714>>, <<3716, 3716>>, <<3718, 3722>>, <<3724, 3747>>, <<3749, 3749>>,
    <<3751, 3773>>, <<3776, 3780>>, <<3782, 3782>>, <<3784, 3789>>, <<3792, 3801>>, <<3804, 3807>>, <<3840, 3911>>, <<3913, 3948>>,
    <<3953, 3991>>, <<3993, 4028>>, <<4030, 4044>>, <<4046, 4058>>, <<4096, 4293>>, <<4295, 4295>>, <<4301, 4301>>, <<4304, 4680>>,
    <<4682, 4685>>, <<4688, 4694>>, <<4696, 4696>>, <<4698, 4701>>, <<4704, 4744>>, <<4746, 4749>>, <<4752, 4784>>, <<4786, 4789>>,
    <<4792, 4798>>, <<4800, 4800>>, <<4802, 4805>>, <<4808, 4822>>, <<4824, 4880>>, <<4882, 4885>>, <<4888, 4954>>, <<4957, 4988>>,
    <<4992, 5017>>, <<5024, 5109>>, <<5112, 5117>>, <<5120, 5759>>, <<5761, 5788>>, <<5792, 5880>>, <<5888, 5909>>, <<5919, 5942>>,
    <<5952, 5971>>, <<5984, 5996>>, <<5998, 6000>>, <<6002, 6003>>, <<6016, 6109>>, <<6112, 6121>>, <<6128, 6137>>, <<6144, 6157>>,
    <<6159, 6169>>, <<6176, 6264>>, <<6272, 6314>>, <<6320, 6389>>, <<6400, 6430>>, <<6432, 6443>>, <<6448, 6459>>, <<6464, 6464>>,
    <<6468, 6509>>, <<6512, 6516>>, <<6528, 6571>>, <<6576, 6601>>, <<6608, 6618>>, <<6622, 6683>>, <<6686, 6750>>, <<6752, 6780>>,
    <<6783, 6793>>, <<6800, 6809>>, <<6816, 6829>>, <<6832, 6862>>, <<6912, 6988>>, <<6992, 7038>>, <<7040, 7155>>, <<7164, 7223>>,
    <<7227, 7241>>, <<7245, 7304>>, <<7312, 7354>>, <<7357, 7367>>, <<7376, 7418>>, <<7424, 7957>>, <<7960, 7965>>, <<7968, 8005>>,
    <<8008, 8013>>, <<8016, 8023>>, <<8025, 8025>>, <<8027, 8027>>, <<8029, 8029>>, <<8031, 8061>>, <<8064, 8116>>, <<8118, 8132>>,
    <<8134, 8147>>, <<8150, 8155>>, <<8157, 8175>>, <<8178, 8180>>, <<8182, 8190>>, <<8208, 8231>>, <<8240, 8286>>, <<8304, 8305>>,
    <<8308, 8334>>, <<8336, 8348>>, <<8352, 8384>>, <<8400, 8432>>, <<8448, 8587>>, <<8592, 9254>>, <<9280, 9290>>, <<9312, 11123>>,
    <<11126, 11157>>, <<11159, 11507>>, <<11513, 11557>>, <<11559, 11559>>, <<11565, 11565>>, <<11568, 11623>>, <<11631, 11632>>, <<11647, 11670>>,
    <<11680, 11686>>, <<11688, 11694>>, <<11696, 11702>>, <<11704, 11710>>, <<11712, 11718>>, <<11720, 11726>>, <<11728, 11734>>, <<11736, 11742>>,
    <<11744, 11869>>, <<11904, 11929>>, <<11931, 12019>>, <<12032, 12245>>, <<12272, 12283>>, <<12289, 12351>>, <<12353, 12438>>, <<12441, 12543>>,
    <<12549, 12591>>, <<12593, 12686>>, <<12688, 12771>>, <<12784, 12830>>, <<12832, 42124>>, <<42128, 42182>>, <<42192, 42539>>, <<42560, 42743>>,
    <<42752, 42954>>, <<42960, 42961>>, <<42963, 42963>>, <<42965, 42969>>, <<42994, 43052>>, <<43056, 43065>>, <<43072, 43127>>, <<43136, 43205>>,
    <<43214, 43225>>, <<43232, 43347>>, <<43359, 43388>>, <<43392, 43469>>, <<43471, 43481>>, <<43486, 43518>>, <<43520, 43574>>, <<43584, 43597>>,
    <<43600, 43609>>, <<43612, 43714>>, <<43739, 43766>>, <<43777, 43782>>, <<43785, 43790>>, <<43793, 43798>>, <<43808, 43814>>, <<43816, 43822>>,
    <<43824, 43883>>, <<43888, 44013>>, <<44016, 44025>>, <<44032, 55203>>, <<55216, 55238>>, <<55243, 55291>>, <<63744, 64109>>, <<64112, 64217>>,
    <<64256, 64262>>, <<64275, 64279>>, <<64285, 64310>>, <<64312, 64316>>, <<64318, 64318>>, <<64320, 64321>>, <<64323, 64324>>, <<64326, 64450>>,
    <<64467, 64911>>, <<64914, 64967>>, <<64975, 64975>>, <<65008, 65049>>, <<65056, 65106>>, <<65108, 65126>>, <<65128, 65131>>, <<65136, 65140>>,
    <<65142, 65276>>, <<65281, 65470>>, <<65474, 65479>>, <<65482, 65487>>, <<65490, 65495>>, <<65498, 65500>>, <<65504, 65510>>, <<65512, 65518>>,
    <<65532, 65533>>, <<65536, 65547>>, <<65549, 65574>>, <<65576, 65594>>, <<65596, 65597>>, <<65599, 65613>>, <<65616, 65629>>, <<65664, 65786>>,
    <<65792, 65794>>, <<65799, 65843>>, <<65847, 65934>>, <<65936, 65948>>, <<65952, 65952>>, <<66000, 66045>>, <<66176, 66204>>, <<66208, 66256>>,
    <<66272, 66299>>, <<66304, 66339>>, <<66349, 66378>>, <<66384, 66426>>, <<66432, 66461>>, <<66463, 66499>>, <<66504, 66517>>, <<66560, 66717>>,
    <<66720, 66729>>, <<66736, 66771>>, <<66776, 66811>>, <<66816, 66855>>, <<66864, 66915>>, <<66927, 66938>>, <<66940, 66954>>, <<66956, 66962>>,
    <<66964, 66965>>, <<66967, 66977>>, <<66979, 66993>>, <<66995, 67001>>, <<67003, 67004>>, <<67072, 67382>>, <<67392, 67413>>, <<67424, 67431>>,
    <<67456, 67461>>, <<67463, 67504>>, <<67506, 67514>>, <<67584, 67589>>, <<67592, 67592>>, <<67594, 67637>>, <<67639, 67640>>, <<67644, 67644>>,
    <<67647, 67669>>, <<67671, 67742>>, <<67751, 67759>>, <<67808, 67826>>, <<67828, 67829>>, <<67835, 67867>>, <<67871, 67897>>, <<67903, 67903>>,
    <<67968, 68023>>, <<68028, 68047>>, <<68050, 68099>>, <<68101, 68102>>, <<68108, 68115>>, <<68117, 68119>>, <<68121, 68149>>, <<68152, 68154>>,
    <<68159, 68168>>, <<68176, 68184>>, <<68192, 68255>>, <<68288, 68326>>, <<68331, 68342>>, <<68352, 68405>>, <<68409, 68437>>, <<68440, 68466>>,
    <<68472, 68497>>, <<68505, 68508>>, <<68521, 68527>>, <<68608, 68680>>, <<68736, 68786>>, <<68800, 68850>>, <<68858, 68903>>, <<68912, 68921>>,
    <<69216, 69246>>, <<69248, 69289>>, <<69291, 69293>>, <<69296, 69297>>, <<69376, 69415>>, <<69424, 69465>>, <<69488, 69513>>, <<69552, 69579>>,
    <<69600, 69622>>, <<69632, 69709>>, <<69714, 69749>>, <<69759, 69820>>, <<69822, 69826>>, <<69840, 69864>>, <<69872, 69881>>, <<69888, 69940>>,
    <<69942, 69959>>, <<69968, 70006>>, <<70016, 70111>>, <<70113, 70132>>, <<70144, 70161>>, <<70163, 70206>>, <<70272, 70278>>, <<70280, 70280>>,
    <<70282, 70285>>, <<70287, 70301>>, <<70303, 70313>>, <<70320, 70378>>, <<70384, 70393>>, <<70400, 70403>>, <<70405, 70412>>, <<70415, 70416>>,
    <<70419, 70440>>, <<70442, 70448>>, <<70450, 70451>>, <<70453, 70457>>, <<70459, 70468>>, <<70471, 70472>>, <<70475, 70477>>, <<70480, 70480>>,
    <<70487, 70487>>, <<70493, 70499>>, <<70502, 70508>>, <<70512, 70516>>, <<70656, 70747>>, <<70749, 70753>>, <<70784, 70855>>, <<70864, 70873>>,
    <<71040, 71093>>, <<71096, 71133>>, <<71168, 71236>>, <<71248, 71257>>, <<71264, 71276>>, <<71296, 71353>>, <<71360, 71369>>, <<71424, 71450>>,
    <<71453, 71467>>, <<71472, 71494>>, <<71680, 71739>>, <<71840, 71922>>, <<71935, 71942>>, <<71945, 71945>>, <<71948, 71955>>, <<71957, 71958>>,
    <<71960, 71989>>, <<71991, 71992>>, <<71995, 72006>>, <<72016, 72025>>, <<72096, 72103>>, <<72106, 72151>>, <<72154, 72164>>, <<72192, 72263>>,
    <<72272, 72354>>, <<72368, 72440>>, <<72704, 72712>>, <<72714, 72758>>, <<72760, 72773>>, <<72784, 72812>>, <<72816, 72847>>, <<72850, 72871>>,
    <<72873, 72886>>, <<72960, 72966>>, <<72968, 72969>>, <<72971, 73014>>, <<73018, 73018>>, <<73020, 73021>>, <<73023, 73031>>, <<73040, 73049>>,
    <<73056, 73061>>, <<73063, 73064>>, <<73066, 73102>>, <<73104, 73105>>, <<73107, 73112>>, <<73120, 73129>>, <<73440, 73464>>, <<73648, 73648>>,
    <<73664, 73713>>, <<73727, 74649>>, <<74752, 74862>>, <<74864, 74868>>, <<74880, 75075>>, <<77712, 77810>>, <<77824, 78894>>, <<82944, 83526>>,
    <<92160, 92728>>, <<92736, 92766>>, <<92768, 92777>>, <<92782, 92862>>, <<92864, 92873>>, <<92880, 92909>>, <<92912, 92917>>, <<92928, 92997>>,
    <<93008, 93017>>, <<93019, 93025>>, <<93027, 93047>>, <<93053, 93071>>, <<93760, 93850>>, <<93952, 94026>>, <<94031, 94087>>, <<94095, 94111>>,
    <<94176, 94180>>, <<94192, 94193>>, <<94208, 100343>>, <<100352, 101589>>, <<101632, 101640>>, <<110576, 110579>>, <<110581, 110587>>, <<110589, 110590>>,
    <<110592, 110882>>, <<110928, 110930>>, <<110948, 110951>>, <<110960, 111355>>, <<113664, 113770>>, <<113776, 113788>>, <<113792, 113800>>, <<113808, 113817>>,
    <<113820, 113823>>, <<118528, 118573>>, <<118576, 118598>>, <<118608, 118723>>, <<118784, 119029>>, <<119040, 119078>>, <<119081, 119154>>, <<119163, 119274>>,
    <<119296, 119365>>, <<119520, 119539>>, <<119552, 119638>>, <<119648, 119672>>, <<119808, 119892>>, <<119894, 119964>>, <<119966, 119967>>, <<119970, 119970>>,
    <<119973, 119974>>, <<119977, 119980>>, <<119982, 119993>>, <<119995, 119995>>, <<119997, 120003>>, <<120005, 120069>>, <<120071, 120074>>, <<120077, 120084>>,
    <<120086, 120092>>, <<120094, 120121>>, <<120123, 120126>>, <<120128, 120132>>, <<120134, 120134>>, <<120138, 120144>>, <<120146, 120485>>, <<120488, 120779>>,
    <<120782, 121483>>, <<121499, 121503>>, <<121505, 121519>>, <<122624, 122654>>, <<122880, 122886>>, <<122888, 122904>>, <<122907, 122913>>, <<122915, 122916>>,
    <<122918, 122922>>, <<123136, 123180>>, <<123184, 123197>>, <<123200, 123209>>, <<123214, 123215>>, <<123536, 123566>>, <<123584, 123641>>, <<123647, 123647>>,
    <<124896, 124902>>, <<124904, 124907>>, <<124909, 124910>>, <<124912, 124926>>, <<124928, 125124>>, <<125127, 125142>>, <<125184, 125259>>, <<125264, 125273>>,
    <<125278, 125279>>, <<126065, 126132>>, <<126209, 126269>>, <<126464, 126467>>, <<126469, 126495>>, <<126497, 126498>>, <<126500, 126500>>, <<126503, 126503>>,
    <<126505, 126514>>, <<126516, 126519>>, <<126521, 126521>>, <<126523, 126523>>, <<126530, 126530>>, <<126535, 126535>>, <<126537, 126537>>, <<126539, 126539>>,
    <<126541, 126543>>, <<126545, 126546>>, <<126548, 126548>>, <<126551, 126551>>, <<126553, 126553>>, <<126555, 126555>>, <<126557, 126557>>, <<126559, 126559>>,
    <<126561, 126562>>, <<126564, 126564>>, <<126567, 126570>>, <<126572, 126578>>, <<126580, 126583>>, <<126585, 126588>>, <<126590, 126590>>, <<126592, 126601>>,
    <<126603, 126619>>, <<126625, 126627>>, <<126629, 126633>>, <<126635, 126651>>, <<126704, 126705>>, <<126976, 127019>>, <<127024, 127123>>, <<127136, 127150>>,
    <<127153, 127167>>, <<127169, 127183>>, <<127185, 127221>>, <<127232, 127405>>, <<127462, 127490>>, <<127504, 127547>>, <<127552, 127560>>, <<127568, 127569>>,
    <<127584, 127589>>, <<127744, 128727>>, <<128733, 128748>>, <<128752, 128764>>, <<128768, 128883>>, <<128896, 128984>>, <<128992, 129003>>, <<129008, 129008>>,
    <<129024, 129035>>, <<129040, 129095>>, <<129104, 129113>>, <<129120, 129159>>, <<129168, 129197>>, <<129200, 129201>>, <<129280, 129619>>, <<129632, 129645>>,
    <<129648, 129652>>, <<129656, 129660>>, <<129664, 129670>>, <<129680, 129708>>, <<129712, 129722>>, <<129728, 129733>>, <<129744, 129753>>, <<129760, 129767>>,
    <<129776, 129782>>, <<129792, 129938>>, <<129940, 129994>>, <<130032, 130041>>, <<131072, 173791>>, <<173824, 177976>>, <<177984, 178205>>, <<178208, 183969>>,
    <<183984, 191456>>, <<194560, 195101>>, <<196608, 201546>>, <<917760, 917999>>>>

\* the cased characters that are not case-ignorable
CasedRanges == <<
    <<65, 90>>, <<97, 122>>, <<170, 170>>, <<181, 181>>, <<186, 186>>, <<192, 214>>, <<216, 246>>, <<248, 442>>,
    <<444, 447>>, <<452, 659>>, <<661, 687>>, <<880, 883>>, <<886, 887>>, <<891, 893>>, <<895, 895>>, <<902, 902>>,
    <<904, 906>>, <<908, 908>>, <<910, 929>>, <<931, 1013>>, <<1015, 1153>>, <<1162, 1327>>, <<1329, 1366>>, <<1376, 1416>>,
    <<4256, 4293>>, <<4295, 4295>>, <<4301, 4301>>, <<4304, 4346>>, <<4349, 4351>>, <<5024, 5109>>, <<5112, 5117>>, <<7296, 7304>>,
    <<7312, 7354>>, <<7357, 7359>>, <<7424, 7467>>, <<7531, 7543>>, <<7545, 7578>>, <<7680, 7957>>, <<7960, 7965>>, <<7968, 8005>>,
    <<8008, 8013>>, <<8016, 8023>>, <<8025, 8025>>, <<8027, 8027>>, <<8029, 8029>>, <<8031, 8061>>, <<8064, 8116>>, <<8118, 8124>>,
    <<8126, 8126>>, <<8130, 8132>>, <<8134, 8140>>, <<8144, 8147>>, <<8150, 8155>>, <<8160, 8172>>, <<8178, 8180>>, <<8182, 8188>>,
    <<8450, 8450>>, <<8455, 8455>>, <<8458, 8467>>, <<8469, 8469>>, <<8473, 8477>>, <<8484, 8484>>, <<8486, 8486>>, <<8488, 8488>>,
    <<8490, 8493>>, <<8495, 8500>>, <<8505, 8505>>, <<8508, 8511>>, <<8517, 8521>>, <<8526, 8526>>, <<8544, 8575>>, <<8579, 8580>>,
    <<9398, 9449>>, <<11264, 11387>>, <<11390, 11492>>, <<11499, 11502>>, <<11506, 11507>>, <<11520, 11557>>, <<11559, 11559>>, <<11565, 11565>>,
    <<42560, 42605>>, <<42624, 42651>>, <<42786, 42863>>, <<42865, 42887>>, <<42891, 42894>>, <<42896, 42954>>, <<42960, 42961>>, <<42963, 42963>>,
    <<42965, 42969>>, <<42997, 42998>>, <<43002, 43002>>, <<43824, 43866>>, <<43872, 43880>>, <<43888, 43967>>, <<64256, 64262>>, <<64275, 64279>>,
    <<65313, 65338>>, <<65345, 65370>>, <<66560, 66639>>, <<66736, 66771>>, <<66776, 66811>>, <<66928, 66938>>, <<66940, 66954>>, <<66956, 66962>>,
    <<66964, 66965>>, <<66967, 66977>>, <<66979, 66993>>, <<66995, 67001>>, <<67003, 67004>>, <<68736, 68786>>, <<68800, 68850>>, <<71840, 71903>>,
    <<93760, 93823>>, <<119808, 119892>>, <<119894, 119964>>, <<119966, 119967>>, <<119970, 119970>>, <<119973, 119974>>, <<119977, 119980>>, <<119982, 119993>>,
    <<119995, 119995>>, <<119997, 120003>>, <<120005, 120069>>, <<120071, 120074>>, <<120077, 120084>>, <<120086, 120092>>, <<120094, 120121>>, <<120123, 120126>>,
    <<120128, 120132>>, <<120134, 120134>>, <<120138, 120144>>, <<120146, 120485>>, <<120488, 120512>>, <<120514, 120538>>, <<120540, 120570>>, <<120572, 120596>>,
    <<120598, 120628>>, <<120630, 120654>>, <<120656, 120686>>, <<120688, 120712>>, <<120714, 120744>>, <<120746, 120770>>, <<120772, 120779>>, <<122624, 122633>>,
    <<122635, 122654>>, <<125184, 125251>>, <<127280, 127305>>, <<127312, 127337>>, <<127344, 127369>>>>

\* the case-ignorable characters
CaseIgnorableRanges == <<
    <<39, 39>>, <<46, 46>>, <<58, 58>>, <<94, 94>>, <<96, 96>>, <<168, 168>>, <<173, 173>>, <<175, 175>>,
    <<180, 180>>, <<183, 184>>, <<688, 879>>, <<884, 885>>, <<890, 890>>, <<900, 901>>, <<903, 903>>, <<1155, 1161>>,
    <<1369, 1369>>, <<1375, 1375>>, <<1425, 1469>>, <<1471, 1471>>, <<1473, 1474>>, <<1476, 1477>>, <<1479, 1479>>, <<1524, 1524>>,
    <<1536, 1541>>, <<1552, 1562>>, <<1564, 1564>>, <<1600, 1600>>, <<1611, 1631>>, <<1648, 1648>>, <<1750, 1757>>, <<1759, 1768>>,
    <<1770, 1773>>, <<1807, 1807>>, <<1809, 1809>>, <<1840, 1866>>, <<1958, 1968>>, <<2027, 2037>>, <<2042, 2042>>, <<2045, 2045>>,
    <<2070, 2093>>, <<2137, 2139>>, <<2184, 2184>>, <<2192, 2193>>, <<2200, 2207>>, <<2249, 2306>>, <<2362, 2362>>, <<2364, 2364>>,
    <<2369, 2376>>, <<2381, 2381>>, <<2385, 2391>>, <<2402, 2403>>, <<2417, 2417>>, <<2433, 2433>>, <<2492, 2492>>, <<2497, 2500>>,
    <<2509, 2509>>, <<2530, 2531>>, <<2558, 2558>>, <<2561, 2562>>, <<2620, 2620>>, <<2625, 2626>>, <<2631, 2632>>, <<2635, 2637>>,
    <<2641, 2641>>, <<2672, 2673>>, <<2677, 2677>>, <<2689, 2690>>, <<2748, 2748>>, <<2753, 2757>>, <<2759, 2760>>, <<2765, 2765>>,
    <<2786, 2787>>, <<2810, 2815>>, <<2817, 2817>>, <<2876, 2876>>, <<2879, 2879>>, <<2881, 2884>>, <<2893, 2893>>, <<2901, 2902>>,
    <<2914, 2915>>, <<2946, 2946>>, <<3008, 3008>>, <<3021, 3021>>, <<3072, 3072>>, <<3076, 3076>>, <<3132, 3132>>, <<3134, 3136>>,
    <<3142, 3144>>, <<3146, 3149>>, <<3157, 3158>>, <<3170, 3171>>, <<3201, 3201>>, <<3260, 3260>>, <<3263, 3263>>, <<3270, 3270>>,
    <<3276, 3277>>, <<3298, 3299>>, <<3328, 3329>>, <<3387, 3388>>, <<3393, 3396>>, <<3405, 3405>>, <<3426, 3427>>, <<3457, 3457>>,
    <<3530, 3530>>, <<3538, 3540>>, <<3542, 3542>>, <<3633, 3633>>, <<3636, 3642>>, <<3654, 3662>>, <<3761, 3761>>, <<3764, 3772>>,
    <<3782, 3782>>, <<3784, 3789>>, <<3864, 3865>>, <<3893, 3893>>, <<3895, 3895>>, <<3897, 3897>>, <<3953, 3966>>, <<3968, 3972>>,
    <<3974, 3975>>, <<3981, 3991>>, <<3993, 4028>>, <<4038, 4038>>, <<4141, 4144>>, <<4146, 4151>>, <<4153, 4154>>, <<4157, 4158>>,
    <<4184, 4185>>, <<4190, 4192>>, <<4209, 4212>>, <<4226, 4226>>, <<4229, 4230>>, <<4237, 4237>>, <<4253, 4253>>, <<4348, 4348>>,
    <<4957, 4959>>, <<5906, 5908>>, <<5938, 5939>>, <<5970, 5971>>, <<6002, 6003>>, <<6068, 6069>>, <<6071, 6077>>, <<6086, 6086>>,
    <<6089, 6099>>, <<6103, 6103>>, <<6109, 6109>>, <<6155, 6159>>, <<6211, 6211>>, <<6277, 6278>>, <<6313, 6313>>, <<6432, 6434>>,
    <<6439, 6440>>, <<6450, 6450>>, <<6457, 6459>>, <<6679, 6680>>, <<6683, 6683>>, <<6742, 6742>>, <<6744, 6750>>, <<6752, 6752>>,
    <<6754, 6754>>, <<6757, 6764>>, <<6771, 6780>>, <<6783, 6783>>, <<6823, 6823>>, <<6832, 6862>>, <<6912, 6915>>, <<6964, 6964>>,
    <<6966, 6970>>, <<6972, 6972>>, <<6978, 6978>>, <<7019, 7027>>, <<7040, 7041>>, <<7074, 7077>>, <<7080, 7081>>, <<7083, 7085>>,
    <<7142, 7142>>, <<7144, 7145>>, <<7149, 7149>>, <<7151, 7153>>, <<7212, 7219>>, <<7222, 7223>>, <<7288, 7293>>, <<7376, 7378>>,
    <<7380, 7392>>, <<7394, 7400>>, <<7405, 7405>>, <<7412, 7412>>, <<7416, 7417>>, <<7468, 7530>>, <<7544, 7544>>, <<7579, 7679>>,
    <<8125, 8125>>, <<8127, 8129>>, <<8141, 8143>>, <<8157, 8159>>, <<8173, 8175>>, <<8189, 8190>>, <<8203, 8207>>, <<8216, 8217>>,
    <<8228, 8228>>, <<8231, 8231>>, <<8234, 8238>>, <<8288, 8292>>, <<8294, 8303>>, <<8305, 8305>>, <<8319, 8319>>, <<8336, 8348>>,
    <<8400, 8432>>, <<11388, 11389>>, <<11503, 11505>>, <<11631, 11631>>, <<11647, 11647>>, <<11744, 11775>>, <<11823, 11823>>, <<12293, 12293>>,
    <<12330, 12333>>, <<12337, 12341>>, <<12347, 12347>>, <<12441, 12446>>, <<12540, 12542>>, <<40981, 40981>>, <<42232, 42237>>, <<42508, 42508>>,
    <<42607, 42610>>, <<42612, 42621>>, <<42623, 42623>>, <<42652, 42655>>, <<42736, 42737>>, <<42752, 42785>>, <<42864, 42864>>, <<42888, 42890>>,
    <<42994, 42996>>, <<43000, 43001>>, <<43010, 43010>>, <<43014, 43014>>, <<43019, 43019>>, <<43045, 43046>>, <<43052, 43052>>, <<43204, 43205>>,
    <<43232, 43249>>, <<43263, 43263>>, <<43302, 43309>>, <<43335, 43345>>, <<43392, 43394>>, <<43443, 43443>>, <<43446, 43449>>, <<43452, 43453>>,
    <<43471, 43471>>, <<43493, 43494>>, <<43561, 43566>>, <<43569, 43570>>, <<43573, 43574>>, <<43587, 43587>>, <<43596, 43596>>, <<43632, 43632>>,
    <<43644, 43644>>, <<43696, 43696>>, <<43698, 43700>>, <<43703, 43704>>, <<43710, 43711>>, <<43713, 43713>>, <<43741, 43741>>, <<43756, 43757>>,
    <<43763, 43764>>, <<43766, 43766>>, <<43867, 43871>>, <<43881, 43883>>, <<44005, 44005>>, <<44008, 44008>>, <<44013, 44013>>, <<64286, 64286>>,
    <<64434, 64450>>, <<65024, 65039>>, <<65043, 65043>>, <<65056, 65071>>, <<65106, 65106>>, <<65109, 65109>>, <<65279, 65279>>, <<65287, 65287>>,
    <<65294, 65294>>, <<65306, 65306>>, <<65342, 65342>>, <<65344, 65344>>, <<65392, 65392>>, <<65438, 65439>>, <<65507, 65507>>, <<65529, 65531>>,
    <<66045, 66045>>, <<66272, 66272>>, <<66422, 66426>>, <<67456, 67461>>, <<67463, 67504>>, <<67506, 67514>>, <<68097, 68099>>, <<68101, 68102>>,
    <<68108, 68111>>, <<68152, 68154>>, <<68159, 68159>>, <<68325, 68326>>, <<68900, 68903>>, <<69291, 69292>>, <<69446, 69456>>, <<69506, 69509>>,
    <<69633, 69633>>, <<69688, 69702>>, <<69744, 69744>>, <<69747, 69748>>, <<69759, 69761>>, <<69811, 69814>>, <<69817, 69818>>, <<69821, 69821>>,
    <<69826, 69826>>, <<69837, 69837>>, <<69888, 69890>>, <<69927, 69931>>, <<69933, 69940>>, <<70003, 70003>>, <<70016, 70017>>, <<70070, 70078>>,
    <<70089, 70092>>, <<70095, 70095>>, <<70191, 70193>>, <<70196, 70196>>, <<70198, 70199>>, <<70206, 70206>>, <<70367, 70367>>, <<70371, 70378>>,
    <<70400, 70401>>, <<70459, 70460>>, <<70464, 70464>>, <<70502, 70508>>, <<70512, 70516>>, <<70712, 70719>>, <<70722, 70724>>, <<70726, 70726>>,
    <<70750, 70750>>, <<70835, 70840>>, <<70842, 70842>>, <<70847, 70848>>, <<70850, 70851>>, <<71090, 71093>>, <<71100, 71101>>, <<71103, 71104>>,
    <<71132, 71133>>, <<71219, 71226>>, <<71229, 71229>>, <<71231, 71232>>, <<71339, 71339>>, <<71341, 71341>>, <<71344, 71349>>, <<71351, 71351>>,
    <<71453, 71455>>, <<71458, 71461>>, <<71463, 71467>>, <<71727, 71735>>, <<71737, 71738>>, <<71995, 71996>>, <<71998, 71998>>, <<72003, 72003>>,
    <<72148, 72151>>, <<72154, 72155>>, <<72160, 72160>>, <<72193, 72202>>, <<72243, 72248>>, <<72251, 72254>>, <<72263, 72263>>, <<72273, 72278>>,
    <<72281, 72283>>, <<72330, 72342>>, <<72344, 72345>>, <<72752, 72758>>, <<72760, 72765>>, <<72767, 72767>>, <<72850, 72871>>, <<72874, 72880>>,
    <<72882, 72883>>, <<72885, 72886>>, <<73009, 73014>>, <<73018, 73018>>, <<73020, 73021>>, <<73023, 73029>>, <<73031, 73031>>, <<73104, 73105>>,
    <<73109, 73109>>, <<73111, 73111>>, <<73459, 73460>>, <<78896, 78904>>, <<92912, 92916>>, <<92976, 92982>>, <<92992, 92995>>, <<94031, 94031>>,
    <<94095, 94111>>, <<94176, 94177>>, <<94179, 94180>>, <<110576, 110579>>, <<110581, 110587>>, <<110589, 110590>>, <<113821, 113822>>, <<113824, 113827>>,
    <<118528, 118573>>, <<118576, 118598>>, <<119143, 119145>>, <<119155, 119170>>, <<119173, 119179>>, <<119210, 119213>>, <<119362, 119364>>, <<121344, 121398>>,
    <<121403, 121452>>, <<121461, 121461>>, <<121476, 121476>>, <<121499, 121503>>, <<121505, 121519>>, <<122880, 122886>>, <<122888, 122904>>, <<122907, 122913>>,
    <<122915, 122916>>, <<122918, 122922>>, <<123184, 123197>>, <<123566, 123566>>, <<123628, 123631>>, <<125136, 125142>>, <<125252, 125259>>, <<127995, 127999>>,
    <<917505, 917505>>, <<917536, 917631>>, <<917760, 917999>>>>

\* str.lower() of one character: the characters first, first + step, ..,
\* last are moved by delta (<<first, last, step, delta>>)
LowerRuns == <<
    <<65, 90, 1, 32>>, <<192, 214, 1, 32>>, <<216, 222, 1, 32>>, <<256, 302, 2, 1>>, <<306, 310, 2, 1>>, <<313, 327, 2, 1>>,
    <<330, 374, 2, 1>>, <<376, 376, 1, -121>>, <<377, 381, 2, 1>>, <<385, 385, 1, 210>>, <<386, 388, 2, 1>>, <<390, 390, 1, 206>>,
    <<391, 391, 1, 1>>, <<393, 394, 1, 205>>, <<395, 395, 1, 1>>, <<398, 398, 1, 79>>, <<399, 399, 1, 202>>, <<400, 400, 1, 203>>,
    <<401, 401, 1, 1>>, <<403, 403, 1, 205>>, <<404, 404, 1, 207>>, <<406, 406, 1, 211>>, <<407, 407, 1, 209>>, <<408, 408, 1, 1>>,
    <<412, 412, 1, 211>>, <<413, 413, 1, 213>>, <<415, 415, 1, 214>>, <<416, 420, 2, 1>>, <<422, 422, 1, 218>>, <<423, 423, 1, 1>>,
    <<425, 425, 1, 218>>, <<428, 428, 1, 1>>, <<430, 430, 1, 218>>, <<431, 431, 1, 1>>, <<433, 434, 1, 217>>, <<435, 437, 2, 1>>,
    <<439, 439, 1, 219>>, <<440, 440, 1, 1>>, <<444, 444, 1, 1>>, <<452, 452, 1, 2>>, <<453, 453, 1, 1>>, <<455, 455, 1, 2>>,
    <<456, 456, 1, 1>>, <<458, 458, 1, 2>>, <<459, 475, 2, 1>>, <<478, 494, 2, 1>>, <<497, 497, 1, 2>>, <<498, 500, 2, 1>>,
    <<502, 502, 1, -97>>, <<503, 503, 1, -56>>, <<504, 542, 2, 1>>, <<544, 544, 1, -130>>, <<546, 562, 2, 1>>, <<570, 570, 1, 10795>>,
    <<571, 571, 1, 1>>, <<573, 573, 1, -163>>, <<574, 574, 1, 10792>>, <<577, 577, 1, 1>>, <<579, 579, 1, -195>>, <<580, 580, 1, 69>>,
    <<581, 581, 1, 71>>, <<582, 590, 2, 1>>, <<880, 882, 2, 1>>, <<886, 886, 1, 1>>, <<895, 895, 1, 116>>, <<902, 902, 1, 38>>,
    <<904, 906, 1, 37>>, <<908, 908, 1, 64>>, <<910, 911, 1, 63>>, <<913, 929, 1, 32>>, <<931, 939, 1, 32>>, <<975, 975, 1, 8>>,
    <<984, 1006, 2, 1>>, <<1012, 1012, 1, -60>>, <<1015, 1015, 1, 1>>, <<1017, 1017, 1, -7>>, <<1018, 1018, 1, 1>>, <<1021, 1023, 1, -130>>,
    <<1024, 1039, 1, 80>>, <<1040, 1071, 1, 32>>, <<1120, 1152, 2, 1>>, <<1162, 1214, 2, 1>>, <<1216, 1216, 1, 15>>, <<1217, 1229, 2, 1>>,
    <<1232, 1326, 2, 1>>, <<1329, 1366, 1, 48>>, <<4256, 4293, 1, 7264>>, <<4295, 4295, 1, 7264>>, <<4301, 4301, 1, 7264>>, <<5024, 5103, 1, 38864>>,
    <<5104, 5109, 1, 8>>, <<7312, 7354, 1, -3008>>, <<7357, 7359, 1, -3008>>, <<7680, 7828, 2, 1>>, <<7838, 7838, 1, -7615>>, <<7840, 7934, 2, 1>>,
    <<7944, 7951, 1, -8>>, <<7960, 7965, 1, -8>>, <<7976, 7983, 1, -8>>, <<7992, 7999, 1, -8>>, <<8008, 8013, 1, -8>>, <<8025, 8031, 2, -8>>,
    <<8040, 8047, 1, -8>>, <<8072, 8079, 1, -8>>, <<8088, 8095, 1, -8>>, <<8104, 8111, 1, -8>>, <<8120, 8121, 1, -8>>, <<8122, 8123, 1, -74>>,
    <<8124, 8124, 1, -9>>, <<8136, 8139, 1, -86>>, <<8140, 8140, 1, -9>>, <<8152, 8153, 1, -8>>, <<8154, 8155, 1, -100>>, <<8168, 8169, 1, -8>>,
    <<8170, 8171, 1, -112>>, <<8172, 8172, 1, -7>>, <<8184, 8185, 1, -128>>, <<8186, 8187, 1, -126>>, <<8188, 8188, 1, -9>>, <<8486, 8486, 1, -7517>>,
    <<8490, 8490, 1, -8383>>, <<8491, 8491, 1, -8262>>, <<8498, 8498, 1, 28>>, <<8544, 8559, 1, 16>>, <<8579, 8579, 1, 1>>, <<9398, 9423, 1, 26>>,
    <<11264, 11311, 1, 48>>, <<11360, 11360, 1, 1>>, <<11362, 11362, 1, -10743>>, <<11363, 11363, 1, -3814>>, <<11364, 11364, 1, -10727>>, <<11367, 11371, 2, 1>>,
    <<11373, 11373, 1, -10780>>, <<11374, 11374, 1, -10749>>, <<11375, 11375, 1, -10783>>, <<11376, 11376, 1, -10782>>, <<11378, 11378, 1, 1>>, <<11381, 11381, 1, 1>>,
    <<11390, 11391, 1, -10815>>, <<11392, 11490, 2, 1>>, <<11499, 11501, 2, 1>>, <<11506, 11506, 1, 1>>, <<42560, 42604, 2, 1>>, <<42624, 42650, 2, 1>>,
    <<42786, 42798, 2, 1>>, <<42802, 42862, 2, 1>>, <<42873, 42875, 2, 1>>, <<42877, 42877, 1, -35332>>, <<42878, 42886, 2, 1>>, <<42891, 42891, 1, 1>>,
    <<42893, 42893, 1, -42280>>, <<42896, 42898, 2, 1>>, <<42902, 42920, 2, 1>>, <<42922, 42922, 1, -42308>>, <<42923, 42923, 1, -42319>>, <<42924, 42924, 1, -42315>>,
    <<42925, 42925, 1, -42305>>, <<42926, 42926, 1, -42308>>, <<42928, 42928, 1, -42258>>, <<42929, 42929, 1, -42282>>, <<42930, 42930, 1, -42261>>, <<42931, 42931, 1, 928>>,
    <<42932, 42946, 2, 1>>, <<42948, 42948, 1, -48>>, <<42949, 42949, 1, -42307>>, <<42950, 42950, 1, -35384>>, <<42951, 42953, 2, 1>>, <<42960, 42960, 1, 1>>,
    <<42966, 42968, 2, 1>>, <<42997, 42997, 1, 1>>, <<65313, 65338, 1, 32>>, <<66560, 66599, 1, 40>>, <<66736, 66771, 1, 40>>, <<66928, 66964, 2, 39>>,
    <<66929, 66938, 1, 39>>, <<66941, 66954, 1, 39>>, <<66957, 66962, 1, 39>>, <<66965, 66965, 1, 39>>, <<68736, 68786, 1, 64>>, <<71840, 71871, 1, 32>>,
    <<93760, 93791, 1, 32>>, <<125184, 125217, 1, 34>>>>

\* the code points of chr(n).lower()
LowerPoint(n) ==
    IF n = 304 THEN <<105, 775>>
    ELSE IF \E k \in 1..Len(LowerRuns) : LowerRuns[k][1] <= n /\ n <= LowerRuns[k][2] /\ (n - LowerRuns[k][1]) % LowerRuns[k][3] = 0
         THEN <<n + LowerRuns[CHOOSE k \in 1..Len(LowerRuns) : LowerRuns[k][1] <= n /\ n <= LowerRuns[k][2] /\ (n - LowerRuns[k][1]) % LowerRuns[k][3] = 0][4]>>
         ELSE <<n>>

\* ------------------------------------------------------------------------
\* Text
\* ------------------------------------------------------------------------

\* c.isspace()
IsSpace(c) == c \in {" ", "\t", "\n"} \/ (c \notin PlainChars /\ InRanges(Calc("CodePoint", <<c>>), SpaceRanges))

RECURSIVE LStrip(_)
LStrip(s) == IF s # <<>> /\ IsSpace(Head(s)) THEN LStrip(Tail(s)) ELSE s
RECURSIVE RStrip(_)
RStrip(s) == IF s # <<>> /\ IsSpace(s[Len(s)]) THEN RStrip(SubSeq(s, 1, Len(s) - 1)) ELSE s
\* str.strip()
Strip(s) == RStrip(LStrip(s))

\* str.startswith(p)
StartsWith(s, p) == Len(s) >= Len(p) /\ SubSeq(s, 1, Len(p)) = p

\* " ".join(texts)
RECURSIVE JoinSpace(_)
JoinSpace(texts) == IF texts = <<>> THEN <<>> ELSE IF Len(texts) = 1 THEN texts[1] ELSE texts[1] \o <<" ">> \o JoinSpace(Tail(texts))

Upper == <<"A","B","C","D","E","F","G","H","I","J","K","L","M","N","O","P","Q","R","S","T","U","V","W","X","Y","Z">>
Lower == <<"a","b","c","d","e","f","g","h","i","j","k","l","m","n","o","p","q","r","s","t","u","v","w","x","y","z">>
Digits == {"0","1","2","3","4","5","6","7","8","9"}

AsciiLetters == Range(Upper) \cup Range(Lower)
UpperLetters == Range(Upper)

\* the character before (step -1) or after (step 1) position i of s that is
\* not case-ignorable is a cased one
CasedNextTo(s, i, step) ==
    LET there == {j \in 1..Len(s) : (j - i) * step > 0 /\ ~InRanges(Calc("CodePoint", <<s[j]>>), CaseIgnorableRanges)}
    IN there # {} /\ InRanges(Calc("CodePoint", <<s[CHOOSE j \in there : \A k \in there : (k - j) * step >= 0]>>), CasedRanges)

\* the lowercase of the character at position i of s: a sequence, since a
\* character may lower to two; a capital sigma lowers to the final sigma
\* after a cased character and not before one
LowerChar(s, i) ==
    LET c == s[i]
    IN IF c \in UpperLetters THEN <<Lower[CHOOSE k \in 1..26 : Upper[k] = c]>>
       ELSE IF c \in PlainChars \/ c \in {"\t", "\n"} THEN <<c>>
       ELSE LET n == Calc("CodePoint", <<c>>)
                to == Calc("LowerPoint", <<n>>)
            IN IF n = 931 THEN <<CharAs(IF CasedNextTo(s, i, -1) /\ ~CasedNextTo(s, i, 1) THEN 962 ELSE 963, c)>>
               ELSE IF to = <<n>> THEN <<c>>
               ELSE [k \in 1..Len(to) |-> CharAs(to[k], c)]
\* str.lower()
ToLower(s) ==
    IF \A i \in 1..Len(s) : s[i] \in PlainChars
    THEN [i \in 1..Len(s) |-> Calc("LowerChar", <<s, i>>)[1]]
    ELSE Flatten([i \in 1..Len(s) |-> Calc("LowerChar", <<s, i>>)])

\* ------------------------------------------------------------------------
\* _Word
\* ------------------------------------------------------------------------

\* _Word(text, x0, x1, top, bottom, page_index)
Word(text, x0, x1, top, bottom, pg) == [text |-> text, x0 |-> x0, x1 |-> x1, top |-> top, bottom |-> bottom, page_index |-> pg]

\* _Word.center
Center(w) == RDiv(RAdd(w.x0, w.x1), 2)

\* ------------------------------------------------------------------------
\* _cluster_row_words
\* ------------------------------------------------------------------------

\* sorted(words, key=lambda w: w.x0)
SortByX0(words) == Pick(words, Calc("SortedIndices", <<[i \in 1..Len(words) |-> <<words[i].x0>>]>>))

\* A bug the boundary case would show: a gap equal to the threshold splits.
ClusterStepSplitAtEqual(st, word, gap_threshold) ==
    LET gap == RSub(word.x0, st.current_cluster[Len(st.current_cluster)].x1)
    IN IF RLe(gap_threshold, gap)
       THEN [clusters |-> Append(st.clusters, st.current_cluster), current_cluster |-> <<word>>]
       ELSE [clusters |-> st.clusters, current_cluster |-> Append(st.current_cluster, word)]

\* One iteration of the loop over sorted_words[1:]
ClusterStep(st, word, gap_threshold) ==
    LET gap == RSub(word.x0, st.current_cluster[Len(st.current_cluster)].x1)
    IN IF RLt(gap_threshold, gap)
       THEN [clusters |-> Append(st.clusters, st.current_cluster), current_cluster |-> <<word>>]
       ELSE [clusters |-> st.clusters, current_cluster |-> Append(st.current_cluster, word)]

RECURSIVE ClusterLoop(_, _, _)
ClusterLoop(st, rest, gap_threshold) == IF rest = <<>> THEN st ELSE ClusterLoop(ClusterStep(st, Head(rest), gap_threshold), Tail(rest), gap_threshold)

_cluster_row_words(words, gap_threshold) ==
    IF words = <<>> THEN <<>>
    ELSE LET sorted_words == SortByX0(words)
             st == ClusterLoop([clusters |-> <<>>, current_cluster |-> <<sorted_words[1]>>], Tail(sorted_words), gap_threshold)
         IN Append(st.clusters, st.current_cluster)

\* ------------------------------------------------------------------------
\* String constants of the source
\* ------------------------------------------------------------------------

S_Section == <<"S","e","c","t","i","o","n">>
S_SectionA == S_Section \o <<" ","A">>
S_SectionB == S_Section \o <<" ","B">>
S_SectionC == S_Section \o <<" ","C">>
S_Total == <<"T","o","t","a","l">>
S_Value == <<"V","a","l","u","e">>
S_Page == <<"P","a","g","e">>
S_Summary == <<"S","u","m","m","a","r","y">>

\* header_skip_tokens
header_skip_tokens == {
    <<"s","e","c","t","i","o","n">>, <<"a">>, <<"b">>, <<"c">>, <<":">>,
    <<"s","u","b","s","c","r","i","p","t","i","o","n","s">>,
    <<"r","e","d","e","m","p","t","i","o","n","s">>,
    <<"g","a","i","n","s">>, <<"l","o","s","s","e","s">>, <<"/">>}

\* ------------------------------------------------------------------------
\* _looks_like_numeric, _join_tokens
\* ------------------------------------------------------------------------

\* str.replace(ch, "") for a one-character ch
RECURSIVE RemoveChar(_, _)
RemoveChar(s, ch) == IF s = <<>> THEN <<>> ELSE IF Head(s) = ch THEN RemoveChar(Tail(s), ch) ELSE <<Head(s)>> \o RemoveChar(Tail(s), ch)

\* re.match(r"^[0-9][0-9,./-]*$", s): $ also matches before one final newline
MatchesNumericPattern(s) ==
    LET body == IF s # <<>> /\ s[Len(s)] = "\n" THEN SubSeq(s, 1, Len(s) - 1) ELSE s
    IN /\ body # <<>>
       /\ body[1] \in Digits
       /\ \A i \in 2..Len(body) : body[i] \in Digits \cup {",", ".", "/", "-"}

_looks_like_numeric(text) == MatchesNumericPattern(RemoveChar(Calc("Strip", <<text>>), "U+20B9"))

\* the token texts with no repeat skipped
JoinCleanedKeepingRepeats(tokens) == [k \in 1..Len(tokens) |-> Strip(tokens[k].text)]

\* the list "cleaned" of _join_tokens after the tokens seen so far
RECURSIVE JoinCleaned(_)
JoinCleaned(tokens) ==
    IF tokens = <<>> THEN <<>>
    ELSE LET cleaned == JoinCleaned(SubSeq(tokens, 1, Len(tokens) - 1))
             candidate == Calc("Strip", <<tokens[Len(tokens)].text>>)
         IN IF candidate = <<>> THEN cleaned
            ELSE IF cleaned # <<>> /\ candidate = cleaned[Len(cleaned)] THEN cleaned
            ELSE Append(cleaned, candidate)

_join_tokens(tokens) == Calc("Strip", <<JoinSpace(JoinCleaned(tokens))>>)

\* ------------------------------------------------------------------------
\* _group_words_by_line
\* ------------------------------------------------------------------------

\* sorted(words, key=lambda w: (w.top, w.x0))
SortByTopX0(words) == Pick(words, Calc("SortedIndices", <<[i \in 1..Len(words) |-> <<words[i].top, words[i].x0>>]>>))

\* the list "groups" after the loop: a word joins the last group while its
\* top is within the tolerance of the top of that group's first word, so a
\* group runs from its first word s to the word before the first later word
\* that is not within the tolerance of word s
LineGroups(sorted_words, top_tolerance) ==
    LET n == Len(sorted_words)
        next_start(s) ==
            LET later == {i \in (s + 1)..n : ~RLe(RAbs(RSub(sorted_words[i].top, sorted_words[s].top)), top_tolerance)}
            IN IF later = {} THEN n + 1 ELSE CHOOSE i \in later : \A j \in later : i <= j
        starts[s \in 1..n] == IF next_start(s) > n THEN <<s>> ELSE <<s>> \o starts[next_start(s)]
        first == starts[1]
    IN [g \in 1..Len(first) |-> SubSeq(sorted_words, first[g], IF g < Len(first) THEN first[g + 1] - 1 ELSE n)]

\* returns a sequence of <<avg_top, group>>
_group_words_by_line(words, top_tolerance) ==
    IF words = <<>> THEN <<>>
    ELSE LET groups == LineGroups(SortByTopX0(words), top_tolerance)
         IN [g \in 1..Len(groups) |-> <<RMean([k \in 1..Len(groups[g]) |-> groups[g][k].top]), groups[g]>>]

\* ------------------------------------------------------------------------
\* Columns: _build_columns_from_clusters, _group_header_columns,
\* _columns_from_header_groups
\* ------------------------------------------------------------------------

\* _ColumnDef(name, left, right, center, section); section is None or Some(name)
ColumnDef(name, left, right, center, section) == [name |-> name, left |-> left, right |-> right, center |-> center, section |-> section]

Centers(ws) == [k \in 1..Len(ws) |-> Center(ws[k])]
X0s(ws) == [k \in 1..Len(ws) |-> ws[k].x0]
X1s(ws) == [k \in 1..Len(ws) |-> ws[k].x1]

\* min(range(len(centers)), key=lambda i: abs(centers[i] - c)): the first minimum
NearestIdx(centers, c) ==
    LET dist(i) == RAbs(RSub(centers[i], c))
    IN CHOOSE i \in 1..Len(centers) : \A j \in 1..Len(centers) : IF j < i THEN RLt(dist(i), dist(j)) ELSE RLe(dist(i), dist(j))

\* the nearest cluster, whatever its extent
HeaderTokenNearest(centers, bounds, token) == NearestIdx(centers, Center(token))

\* the cluster index a header token is filed under
HeaderTokenColumn(centers, bounds, token) ==
    LET nearest_idx == NearestIdx(centers, Center(token))
        max_x == bounds[nearest_idx][2]
    IN IF RLt(RAdd(max_x, Q(5)), Center(token)) /\ nearest_idx < Len(centers) THEN nearest_idx + 1 ELSE nearest_idx

\* left/right of column idx of n from the centers and the raw extent of the
\* first/last column: midpoints trimmed by min(5.0, span/4), the outer edges
\* pushed out by 5
ColumnSpan(centers, idx, first_min, last_max) ==
    LET n == Len(centers)
        left == IF idx = 1 THEN RSub(first_min, Q(5)) ELSE RDiv(RAdd(centers[idx - 1], centers[idx]), 2)
        right == IF idx = n THEN RAdd(last_max, Q(5)) ELSE RDiv(RAdd(centers[idx], centers[idx + 1]), 2)
        margin == RMin(Q(5), RDiv(RSub(right, left), 4))
    IN <<IF idx > 1 THEN RAdd(left, margin) ELSE left, IF idx < n THEN RSub(right, margin) ELSE right>>

_build_columns_from_clusters(clusters, header_words, section_name) ==
    IF clusters = <<>> THEN <<>>
    ELSE LET n == Len(clusters)
             centers == [i \in 1..n |-> RMean(Centers(clusters[i]))]
             bounds == [i \in 1..n |-> <<RMinOf(X0s(clusters[i])), RMaxOf(X1s(clusters[i]))>>]
             token_groups == [i \in 1..n |-> Pick(header_words, IndicesIn(Len(header_words), {t \in 1..Len(header_words) : HeaderTokenColumn(centers, bounds, header_words[t]) = i}))]
         IN [idx \in 1..n |->
               LET span == ColumnSpan(centers, idx, bounds[idx][1], bounds[idx][2])
                   column_tokens == SortByTopX0(token_groups[idx])
                   joined == _join_tokens(column_tokens)
               IN ColumnDef(IF joined = <<>> THEN S_Value ELSE joined, span[1], span[2], centers[idx], section_name)]

\* the list "groups" after the (x0-sorted) header words seen so far; a group
\* is [words, centers]
RECURSIVE HeaderGroups(_, _)
HeaderGroups(sorted_words, tolerance) ==
    IF sorted_words = <<>> THEN <<>>
    ELSE LET groups == HeaderGroups(SubSeq(sorted_words, 1, Len(sorted_words) - 1), tolerance)
             word == sorted_words[Len(sorted_words)]
             center == Center(word)
             fits == {g \in 1..Len(groups) : RLe(RAbs(RSub(RMean(groups[g].centers), center)), tolerance)}
         IN IF fits = {} THEN Append(groups, [words |-> <<word>>, centers |-> <<center>>])
            ELSE LET g == CHOOSE g \in fits : \A h \in fits : g <= h
                 IN [groups EXCEPT ![g] = [words |-> Append(groups[g].words, word), centers |-> Append(groups[g].centers, center)]]

\* a returned group is [words, centers, center, min_x, max_x, name]
_group_header_columns(header_words, tolerance) ==
    LET groups == HeaderGroups(SortByX0(header_words), tolerance)
    IN [g \in 1..Len(groups) |->
          [words |-> groups[g].words,
           centers |-> groups[g].centers,
           center |-> RMean(groups[g].centers),
           min_x |-> RMinOf(X0s(groups[g].words)),
           max_x |-> RMaxOf(X1s(groups[g].words)),
           name |-> _join_tokens(SortByTopX0(groups[g].words))]]

\* cluster_bounds is a (possibly empty) sequence of <<min x0, max x1>>
_columns_from_header_groups(groups, section_name, cluster_bounds) ==
    LET n == Len(groups)
        centers == [i \in 1..n |-> groups[i].center]
    IN [idx \in 1..n |->
          LET span == ColumnSpan(centers, idx, groups[idx].min_x, groups[idx].max_x)
              widen == cluster_bounds # <<>> /\ idx <= Len(cluster_bounds)
              left == IF widen THEN RMax(span[1], RSub(cluster_bounds[idx][1], Q(3))) ELSE span[1]
              right == IF widen THEN RMax(span[2], RAdd(cluster_bounds[idx][2], Q(3))) ELSE span[2]
          IN ColumnDef(groups[idx].name, left, right, groups[idx].center, section_name)]

\* ------------------------------------------------------------------------
\* _extract_row_cells
\* ------------------------------------------------------------------------

\* ExtractedCell(section, column, value_text, words); section is None or Some(name)
ExtractedCell(section, column, value_text, words) == [section |-> section, column |-> column, value_text |-> value_text, words |-> words]

\* the tokens of one column: x0-sorted row words whose center is in [left, right]
ColumnTokens(row_words, column) ==
    LET sorted_words == SortByX0(row_words)
    IN Pick(sorted_words, IndicesIn(Len(sorted_words), {k \in 1..Len(sorted_words) : RLe(column.left, Center(sorted_words[k])) /\ RLe(Center(sorted_words[k]), column.right)}))

\* the cells appended while the columns are walked left to right
RECURSIVE RowCells(_, _, _)
RowCells(row_words, columns, section_name) ==
    IF columns = <<>> THEN <<>>
    ELSE LET column == columns[Len(columns)]
             tokens == ColumnTokens(row_words, column)
             value == _join_tokens(tokens)
             before == RowCells(row_words, SubSeq(columns, 1, Len(columns) - 1), section_name)
         IN IF value # <<>> THEN Append(before, ExtractedCell(section_name, column.name, value, tokens)) ELSE before

\* row_map: a dict column name -> value; the last column of a name decides it
RowMap(row_words, columns) ==
    [name \in {columns[i].name : i \in 1..Len(columns)} |->
        LET last == CHOOSE i \in 1..Len(columns) : columns[i].name = name /\ \A j \in (i + 1)..Len(columns) : columns[j].name # name
        IN _join_tokens(ColumnTokens(row_words, columns[last]))]

\* returns <<row_map, cells>>
_extract_row_cells(row_words, columns, section_name) == <<RowMap(row_words, columns), RowCells(row_words, columns, section_name)>>

\* ------------------------------------------------------------------------
\* DataFrame (pandas): [columns: sequence of names, rows: sequence of rows,
\* a row being a sequence of values, one per column]
\* ------------------------------------------------------------------------

\* pd.DataFrame(rows, columns=names) for a list of dicts: each column takes
\* the dict's value under its name
DataFrame(row_maps, names) == [columns |-> names, rows |-> [r \in 1..Len(row_maps) |-> [j \in 1..Len(names) |-> row_maps[r][names[j]]]]]

\* a missing value (NaN) of a frame; no text is this one-element sequence
NaN == <<"NaN">>

\* pd.DataFrame()
EmptyFrame == [columns |-> <<>>, rows |-> <<>>]

\* ------------------------------------------------------------------------
\* _canonical_section_columns
\* ------------------------------------------------------------------------

CanonicalA == <<
    <<"T","r","x","n","."," ","T","y","p","e">>,
    <<"D","a","t","e">>,
    <<"C","u","r","r","e","n","t"," ","U","n","i","t","s">>,
    <<"S","o","u","r","c","e"," ","S","c","h","e","m","e"," ","U","n","i","t","s">>,
    <<"O","r","i","g","i","n","a","l"," ","P","u","r","c","h","a","s","e"," ","C","o","s","t">>,
    <<"*","*","O","r","i","g","i","n","a","l"," ","P","u","r","c","h","a","s","e"," ","A","m","o","u","n","t">>,
    <<"G","r","a","n","d","f","a","t","h","e","r","e","d"," ","N","a","v"," ","a","s"," ","o","n"," ","3","1","/","0","1","/","2","0","1","8">>,
    <<"G","r","a","n","d","F","a","t","h","e","r","e","d"," ","C","o","s","t"," ","V","a","l","u","e">>,
    <<"I","T"," ","A","p","p","l","i","c","a","b","l","e"," ","N","A","V">>,
    <<"I","T"," ","A","p","p","l","i","c","a","b","l","e"," ","C","o","s","t"," ","V","a","l","u","e">> >>

CanonicalB == <<
    <<"I","T"," ","A","p","p","l","i","c","a","b","l","e"," ","N","A","V">>,
    <<"I","T"," ","A","p","p","l","i","c","a","b","l","e"," ","C","o","s","t"," ","V","a","l","u","e">>,
    <<"T","r","x","n","."," ","T","y","p","e">>,
    <<"D","a","t","e">>,
    <<"U","n","i","t","s">>,
    <<"A","m","o","u","n","t">>,
    <<"P","r","i","c","e">>,
    <<"T","a","x"," ","P","e","r","c">>,
    <<"T","o","t","a","l"," ","T","a","x">> >>

CanonicalC == <<
    <<"T","a","x"," ","P","e","r","c">>,
    <<"T","o","t","a","l"," ","T","a","x">>,
    <<"S","h","o","r","t"," ","T","e","r","m">>,
    <<"I","n","d","e","x","e","d"," ","C","o","s","t">>,
    <<"L","o","n","g"," ","T","e","r","m"," ","W","i","t","h"," ","I","n","d","e","x">>,
    <<"L","o","n","g"," ","T","e","r","m"," ","W","i","t","h","o","u","t"," ","I","n","d","e","x">> >>

\* list[:k]
Prefix(s, k) == SubSeq(s, 1, IF k < Len(s) THEN k ELSE Len(s))

\* returns the canonical names, or None
_canonical_section_columns(section_name, column_count) ==
    IF StartsWith(section_name, S_SectionA) /\ column_count >= 10 THEN Some(Prefix(CanonicalA, column_count))
    ELSE IF StartsWith(section_name, S_SectionB) /\ column_count >= 9 THEN Some(Prefix(CanonicalB, column_count))
    ELSE IF StartsWith(section_name, S_SectionC) /\ column_count >= 6 THEN Some(Prefix(CanonicalC, column_count))
    ELSE None

\* ------------------------------------------------------------------------
\* _detect_sections
\* ------------------------------------------------------------------------

\* _SectionBoundary(name, left, right)
SectionBoundary(name, left, right) == [name |-> name, left |-> left, right |-> right]

\* The indices (into words) of the label started by the "Section" word at
\* index i: the while loop from j = index + 1.  _word_index finds the word by
\* identity, which is its own index.
LabelSequence(words, i, j) ==
    LET breaks == {k \in j..Len(words) : words[k].text = S_Section /\ RLt(RAbs(RSub(words[k].top, words[i].top)), Q(5))}
        stop == IF breaks = {} THEN Len(words) + 1 ELSE CHOOSE k \in breaks : \A m \in breaks : k <= m
    IN IndicesIn(stop - 1, {k \in j..(stop - 1) : RLe(RAbs(RSub(words[k].top, words[i].top)), Q(5))})

\* the indices of the "Section" words in the label band, in (top, x0) order
SectionWordIndices(words) ==
    LET order == Calc("SortedIndices", <<[i \in 1..Len(words) |-> <<words[i].top, words[i].x0>>]>>)
    IN Pick(order, IndicesIn(Len(order), {k \in 1..Len(order) : RLe(Q(200), words[order[k]].top) /\ RLe(words[order[k]].top, Q(520)) /\ words[order[k]].text = S_Section}))

\* <<center, name>> of the label at index i
Label(words, i) ==
    LET sequence == Pick(words, <<i>> \o Calc("LabelSequence", <<words, i, i + 1>>))
        text == Calc("Strip", <<JoinSpace([k \in 1..Len(sequence) |-> SortByX0(sequence)[k].text])>>)
    IN <<RMean(Centers(sequence)), text>>

IsKnownLabel(text) == StartsWith(text, S_SectionA \o <<" ",":">>) \/ StartsWith(text, S_SectionB \o <<" ",":">>) \/ StartsWith(text, S_SectionC \o <<" ",":">>)

\* zip(centers, names): the labels kept, in section_words order
Labels(words) ==
    LET sw == SectionWordIndices(words)
        all == [k \in 1..Len(sw) |-> Label(words, sw[k])]
    IN Pick(all, IndicesIn(Len(all), {k \in 1..Len(all) : IsKnownLabel(all[k][2])}))

\* A partition without the clamp to the page.
BoundariesUnclamped(centers_sorted) ==
    [idx \in 1..Len(centers_sorted) |->
        LET center == centers_sorted[idx][1]
            left == IF idx > 1 THEN RDiv(RAdd(centers_sorted[idx - 1][1], center), 2) ELSE Q(0)
            right == IF idx < Len(centers_sorted) THEN RDiv(RAdd(center, centers_sorted[idx + 1][1]), 2) ELSE Q(1000)
        IN SectionBoundary(centers_sorted[idx][2], RSub(left, Q(40)), RAdd(right, Q(40)))]

\* the loop over centers_sorted: midpoints, margin 40, clamp to [0, 1000]
Boundaries(centers_sorted) ==
    [idx \in 1..Len(centers_sorted) |->
        LET center == centers_sorted[idx][1]
            left == IF idx > 1 THEN RDiv(RAdd(centers_sorted[idx - 1][1], center), 2) ELSE Q(0)
            right == IF idx < Len(centers_sorted) THEN RDiv(RAdd(center, centers_sorted[idx + 1][1]), 2) ELSE Q(1000)
        IN SectionBoundary(centers_sorted[idx][2], RMax(Q(0), RSub(left, Q(40))), RMin(Q(1000), RAdd(right, Q(40))))]

\* sorted(zip(centers, names), key=lambda item: item[0])
SortByCenter(labels) == Pick(labels, Calc("SortedIndices", <<[k \in 1..Len(labels) |-> <<labels[k][1]>>]>>))

_detect_sections(words) == Boundaries(SortByCenter(Labels(words)))

\* ------------------------------------------------------------------------
\* _parse_detail_sections
\* ------------------------------------------------------------------------

\* [w for w in words if cond]: the subsequence at the indices in keep
Select(words, keep) == Pick(words, IndicesIn(Len(words), keep))

\* words of the detail band whose center lies in the boundary
SectionWords(words, boundary) ==
    Select(words, {k \in 1..Len(words) :
        /\ RLe(boundary.left, Center(words[k])) /\ RLe(Center(words[k]), boundary.right)
        /\ RLe(Q(330), words[k].top) /\ RLe(words[k].top, Q(420))})

\* line groups with top <= 372
HeaderCandidates(line_groups) == Select(line_groups, {g \in 1..Len(line_groups) : RLe(line_groups[g][1], Q(372))})

\* the header words: words of the header lines that are not label words
HeaderWords(header_candidates) ==
    LET ws == Flatten([g \in 1..Len(header_candidates) |-> header_candidates[g][2]])
    IN Select(ws, {k \in 1..Len(ws) : ToLower(ws[k].text) \notin header_skip_tokens})

\* max((top for top, _ in header_candidates), default=0.0)
HeaderMaxTop(header_candidates) == IF header_candidates = <<>> THEN Q(0) ELSE RMaxOf([g \in 1..Len(header_candidates) |-> header_candidates[g][1]])

\* line groups with top > header_max_top + 2
DataCandidates(line_groups, header_max_top) == Select(line_groups, {g \in 1..Len(line_groups) : RLt(RAdd(header_max_top, Q(2)), line_groups[g][1])})

_is_total_row(group) == \E k \in 1..Len(group) : StartsWith(Calc("Strip", <<group[k].text>>), S_Total)

\* A data row test that is content with one number.
IsDataRowWithOneNumber(group) == Cardinality({k \in 1..Len(group) : _looks_like_numeric(group[k].text)}) >= 1

_is_data_row(group) == Cardinality({k \in 1..Len(group) : _looks_like_numeric(group[k].text)}) >= 2

\* the groups (without their tops) of the candidates at the indices in keep
GroupsOf(candidates, keep) == LET sel == Select(candidates, keep) IN [g \in 1..Len(sel) |-> sel[g][2]]

DataGroups(data_candidates) == GroupsOf(data_candidates, {g \in 1..Len(data_candidates) : _is_data_row(data_candidates[g][2]) /\ ~_is_total_row(data_candidates[g][2])})

TotalGroups(data_candidates) == GroupsOf(data_candidates, {g \in 1..Len(data_candidates) : _is_total_row(data_candidates[g][2])})

\* the columns of a section from its data groups and header words
ColumnsOf(clusters, header_groups, header_words, name) ==
    IF header_groups = <<>>
    THEN Calc("_build_columns_from_clusters", <<clusters, header_words, name>>)
    ELSE _columns_from_header_groups(header_groups, name, [c \in 1..Len(clusters) |-> <<RMinOf(X0s(clusters[c])), RMaxOf(X1s(clusters[c]))>>])

SectionColumns(data_groups, header_words, name) ==
    ColumnsOf(Calc("_cluster_row_words", <<Flatten(data_groups), Q(4)>>), Calc("_group_header_columns", <<header_words, Q(24)>>), header_words, name)

\* "df = df.reindex(columns=names)": the values are realigned by name, and a
\* name the table does not have gives a column of NaN
SetColumnsReindex(df, names) ==
    [raised |-> FALSE,
     df |-> [columns |-> names,
             rows |-> [r \in 1..Len(df.rows) |-> [j \in 1..Len(names) |->
                         IF \E c \in 1..Len(df.columns) : df.columns[c] = names[j]
                         THEN df.rows[r][CHOOSE c \in 1..Len(df.columns) : df.columns[c] = names[j]]
                         ELSE NaN]]]]

\* "df.columns = names": pandas raises ValueError (length mismatch) unless
\* there are as many names as columns
SetColumns(df, names) == IF Len(names) = Len(df.columns) THEN [raised |-> FALSE, df |-> [df EXCEPT !.columns = names]] ELSE [raised |-> TRUE, df |-> df]

\* the data and total groups of a boundary's section (<<>>, <<>> without words)
SectionGroups(words, boundary) ==
    LET section_words == SectionWords(words, boundary)
        line_groups == Calc("_group_words_by_line", <<section_words, Half(3)>>)
        header_candidates == HeaderCandidates(line_groups)
        data_candidates == DataCandidates(line_groups, HeaderMaxTop(header_candidates))
    IN [header_words |-> HeaderWords(header_candidates), data_groups |-> DataGroups(data_candidates), total_groups |-> TotalGroups(data_candidates)]

\* One iteration of "for boundary in section_boundaries" on the accumulator
\* [raised, section_tables, cells]: a section without words or data rows is
\* skipped (continue); a ValueError of the column assignment leaves the loop.
\* the rows of a section with data rows: the table is built, renamed to the
\* canonical columns and stored, the cells are appended
SectionTable(acc, boundary, columns, groups) ==
    LET extracted == [g \in 1..Len(groups) |-> Calc("_extract_row_cells", <<groups[g], columns, Some(boundary.name)>>)]
        df == DataFrame([g \in 1..Len(groups) |-> extracted[g][1]], [c \in 1..Len(columns) |-> columns[c].name])
        canonical_columns == _canonical_section_columns(boundary.name, Len(columns))
        renamed == IF canonical_columns # None /\ canonical_columns[1] # <<>> THEN SetColumns(df, canonical_columns[1]) ELSE [raised |-> FALSE, df |-> df]
    IN IF renamed.raised THEN [acc EXCEPT !.raised = TRUE]
       ELSE [raised |-> FALSE,
             section_tables |-> [n \in DOMAIN acc.section_tables \cup {boundary.name} |-> IF n = boundary.name THEN renamed.df ELSE acc.section_tables[n]],
             cells |-> acc.cells \o Flatten([g \in 1..Len(groups) |-> extracted[g][2]])]

\* A section whose data rows are all taken for a table.
SectionRowsAlways(acc, boundary, sg) ==
    SectionTable(acc, boundary, SectionColumns(sg.data_groups, sg.header_words, Some(boundary.name)), sg.data_groups \o sg.total_groups)

\* "if not data_groups: continue", else the table of the section
SectionRows(acc, boundary, sg) ==
    IF sg.data_groups = <<>> THEN acc
    ELSE SectionTable(acc, boundary, Calc("SectionColumns", <<sg.data_groups, sg.header_words, Some(boundary.name)>>), sg.data_groups \o sg.total_groups)

SectionStep(acc, words, boundary) ==
    IF SectionWords(words, boundary) = <<>> THEN acc ELSE SectionRows(acc, boundary, SectionGroups(words, boundary))

EmptyDict == [n \in {} |-> {}]

RECURSIVE SectionLoop(_, _, _)
SectionLoop(acc, words, boundaries) ==
    IF boundaries = <<>> \/ acc.raised THEN acc
    ELSE SectionLoop(Calc("SectionStep", <<acc, words, Head(boundaries)>>), words, Tail(boundaries))

\* returns [raised, section_tables, cells]; raised stands for the ValueError
\* that leaves the function, and then nothing is returned
_parse_detail_sections(words) == SectionLoop([raised |-> FALSE, section_tables |-> EmptyDict, cells |-> <<>>], words, Calc("_detect_sections", <<words>>))

\* ------------------------------------------------------------------------
\* _parse_summary_table
\* ------------------------------------------------------------------------

\* [w for w in words if lo <= w.top <= hi]
WordsInBand(words, lo, hi) == Select(words, {k \in 1..Len(words) : RLe(lo, words[k].top) /\ RLe(words[k].top, hi)})

\* the summary table and cells from the data row, the total row and the columns
SummaryRows(data_row_words, total_row_words, columns) ==
    LET data == Calc("_extract_row_cells", <<data_row_words, columns, None>>)
        total == Calc("_extract_row_cells", <<total_row_words, columns, None>>)
    IN [raised |-> FALSE,
        df |-> DataFrame(<<data[1], total[1]>>, [c \in 1..Len(columns) |-> columns[c].name]),
        cells |-> data[2] \o total[2]]

\* returns [raised, df, cells]; raised stands for ValueError("Failed to locate
\* the scheme summary row."), and then df and cells are not returned
_parse_summary_table(words) ==
    LET header_words == WordsInBand(words, Q(228), Q(245))
        data_row_words == WordsInBand(words, Q(248), Q(265))
        total_row_words == WordsInBand(words, Q(266), Q(285))
    IN IF data_row_words = <<>> THEN [raised |-> TRUE, df |-> EmptyFrame, cells |-> <<>>]
       ELSE SummaryRows(data_row_words, total_row_words, Calc("_build_columns_from_clusters", <<Calc("_cluster_row_words", <<data_row_words, Q(35)>>), header_words, None>>))

\* ------------------------------------------------------------------------
\* _normalize_spaced_tokens, _first_match, _extract_header
\* ------------------------------------------------------------------------

IsAlphaChar(c) == IF c \in PlainChars THEN c \in AsciiLetters ELSE InRanges(Calc("CodePoint", <<c>>), AlphaRanges)
IsDigitChar(c) == IF c \in PlainChars THEN c \in Digits ELSE InRanges(Calc("CodePoint", <<c>>), DigitRanges)
\* alphabetic or numeric (the decimals and the digits are numeric)
IsAlnumChar(c) == IF c \in PlainChars THEN c \in AsciiLetters \cup Digits ELSE InRanges(Calc("CodePoint", <<c>>), AlphaRanges) \/ InRanges(Calc("CodePoint", <<c>>), NumericRanges)
IsPrintableChar(c) == c \in PlainChars \/ InRanges(Calc("CodePoint", <<c>>), PrintableRanges)
\* str.isalpha(), str.isdigit(), str.isalnum()
IsAlpha(s) == s # <<>> /\ \A i \in 1..Len(s) : IsAlphaChar(s[i])
IsDigit(s) == s # <<>> /\ \A i \in 1..Len(s) : IsDigitChar(s[i])
IsAlnum(s) == s # <<>> /\ \A i \in 1..Len(s) : IsAlnumChar(s[i])
\* str.isprintable()
IsPrintable(s) == \A i \in 1..Len(s) : IsPrintableChar(s[i])

\* the index of the first occurrence of sub in s, 0 when there is none
FindSub(s, sub) ==
    LET at == {i \in 1..(Len(s) - Len(sub) + 1) : SubSeq(s, i, i + Len(sub) - 1) = sub}
    IN IF at = {} THEN 0 ELSE CHOOSE i \in at : \A j \in at : i <= j

\* sub in s
Contains(s, sub) == Calc("FindSub", <<s, sub>>) # 0

\* s.replace(sub, ""), sub non-empty: occurrences removed left to right
RECURSIVE RemoveSub(_, _)
RemoveSub(s, sub) ==
    LET i == Calc("FindSub", <<s, sub>>)
    IN IF i = 0 THEN s ELSE SubSeq(s, 1, i - 1) \o RemoveSub(SubSeq(s, i + Len(sub), Len(s)), sub)

\* s.split(sep, 1)[0]
BeforeFirst(s, sep) == LET i == Calc("FindSub", <<s, sep>>) IN IF i = 0 THEN s ELSE SubSeq(s, 1, i - 1)

\* a line boundary of str.splitlines()
IsLineBreak(c) == c = "\n" \/ (c \notin PlainChars /\ Calc("CodePoint", <<c>>) \in LineBreakPoints)

\* str.splitlines(): the text is cut at every line boundary, a carriage
\* return followed by a line feed being one boundary
RECURSIVE SplitLines(_)
SplitLines(s) ==
    LET breaks == {i \in 1..Len(s) : IsLineBreak(s[i])}
        i == CHOOSE b \in breaks : \A k \in breaks : b <= k
        j == IF i < Len(s) /\ Calc("CodePoint", <<s[i]>>) = 13 /\ Calc("CodePoint", <<s[i + 1]>>) = 10 THEN i + 1 ELSE i
    IN IF s = <<>> THEN <<>> ELSE IF breaks = {} THEN <<s>> ELSE <<SubSeq(s, 1, i - 1)>> \o SplitLines(SubSeq(s, j + 1, Len(s)))

\* the fragments when a single letter is glued to the fragment before it
RECURSIVE MergedIntoPreceding(_)
MergedIntoPreceding(tokens) ==
    IF tokens = <<>> THEN <<>>
    ELSE LET fragments == MergedIntoPreceding(SubSeq(tokens, 1, Len(tokens) - 1))
             token == tokens[Len(tokens)]
         IN IF Len(token) = 1 /\ IsAlpha(token) /\ fragments # <<>>
            THEN [fragments EXCEPT ![Len(fragments)] = @ \o token]
            ELSE Append(fragments, token)

NormalizeIntoPreceding(tokens) == [rebuilt |-> MergedIntoPreceding(tokens), buffer |-> <<>>]

\* the state [rebuilt, buffer] of _normalize_spaced_tokens after the tokens
RECURSIVE NormalizeLoop(_)
NormalizeLoop(tokens) ==
    IF tokens = <<>> THEN [rebuilt |-> <<>>, buffer |-> <<>>]
    ELSE LET st == NormalizeLoop(SubSeq(tokens, 1, Len(tokens) - 1))
             token == tokens[Len(tokens)]
         IN IF Len(token) = 1 /\ Calc("IsAlpha", <<token>>) THEN [st EXCEPT !.buffer = st.buffer \o token]
            ELSE IF st.buffer # <<>>
                 THEN IF Calc("IsAlpha", <<token>>)
                      THEN [rebuilt |-> Append(st.rebuilt, st.buffer \o token), buffer |-> <<>>]
                      ELSE [rebuilt |-> st.rebuilt \o <<st.buffer, token>>, buffer |-> <<>>]
                 ELSE [st EXCEPT !.rebuilt = Append(st.rebuilt, token)]

_normalize_spaced_tokens(tokens) ==
    LET st == NormalizeLoop(tokens)
    IN JoinSpace(IF st.buffer # <<>> THEN Append(st.rebuilt, st.buffer) ELSE st.rebuilt)

Texts(ws) == [k \in 1..Len(ws) |-> ws[k].text]

\* _first_match(words, predicate) for the set of indices the predicate holds
\* at: None or Some(word)
FirstMatch(words, holds) == IF holds = {} THEN None ELSE Some(words[CHOOSE i \in holds : \A j \in holds : i <= j])

\* A header that marks a word it did not find with a dash.
TextOrDash(opt) == IF opt = None THEN <<"-">> ELSE opt[1].text

\* the .text of an optional word, "" for None
TextOrEmpty(opt) == IF opt = None THEN <<>> ELSE opt[1].text

\* round(x, 1) for x >= 0: the nearest tenth, a tie going to the even one
Round1(x) ==
    IF Simple(x)
    THEN LET n == x[1] * 10
             q == n \div x[2]
             r2 == 2 * (n % x[2])
         IN Rat(IF r2 > x[2] \/ (r2 = x[2] /\ q % 2 = 1) THEN q + 1 ELSE q, 10)
    ELSE FRoundTenth(Calc("ToFloat", <<x>>))

S_ForThePeriod == <<"F","o","r"," ","t","h","e"," ","p","e","r","i","o","d">>
S_StatusColon == <<"S","t","a","t","u","s"," ",":">>
S_PAN == <<"P","A","N">>
S_Name == <<"N","a","m","e">>
S_NameColon == <<"N","a","m","e"," ",":">>

HeaderStatementPeriod(page_text) ==
    LET lines == SplitLines(page_text)
        hits == {i \in 1..Len(lines) : Contains(lines[i], S_ForThePeriod)}
    IN IF hits = {} THEN <<>> ELSE Calc("Strip", <<lines[CHOOSE i \in hits : \A j \in hits : i <= j]>>)

HeaderStatus(words) ==
    LET status_tokens == Texts(WordsInBand(words, Q(55), Q(70)))
        status_line == Calc("Strip", <<RemoveSub(Calc("_normalize_spaced_tokens", <<status_tokens>>), S_StatusColon)>>)
    IN IF status_tokens = <<>> THEN <<>>
       ELSE IF Contains(status_line, S_PAN) THEN Calc("Strip", <<BeforeFirst(status_line, S_PAN)>>) ELSE status_line

HeaderName(words) ==
    LET name_tokens == Texts(WordsInBand(words, Q(85), Q(100)))
    IN IF name_tokens = <<>> THEN <<>>
       ELSE Calc("Strip", <<RemoveSub(RemoveSub(Calc("_normalize_spaced_tokens", <<name_tokens>>), S_NameColon), S_Name)>>)

\* sorted(set of floats)
RECURSIVE SortedRats(_)
SortedRats(S) == IF S = {} THEN <<>> ELSE LET m == CHOOSE x \in S : \A y \in S : RLe(x, y) IN <<m>> \o SortedRats(S \ {m})

\* address_tops, ascending
AddressTops(words) ==
    LET tops == {Round1(words[k].top) : k \in {k \in 1..Len(words) : RLe(Q(100), words[k].top) /\ RLe(words[k].top, Q(160)) /\ ~Contains(words[k].text, <<":">>) /\ IsPrintable(words[k].text)}}
    IN SortedRats(tops)

AddressLine(words, top) ==
    LET sorted_words == SortByX0(words)
    IN Calc("Strip", <<JoinSpace(Texts(Select(sorted_words, {k \in 1..Len(sorted_words) : RLe(RAbs(RSub(sorted_words[k].top, top)), Q(1)) /\ ~Contains(sorted_words[k].text, <<":">>)})))>>)

HeaderAddress(words) ==
    LET tops == Calc("AddressTops", <<words>>)
        lines == [t \in 1..Len(tops) |-> AddressLine(words, tops[t])]
    IN Select(lines, {t \in 1..Len(lines) : lines[t] # <<>> /\ ~StartsWith(lines[t], S_Name)})

_extract_header(words, page_text) ==
    [statement_period |-> HeaderStatementPeriod(page_text),
     status |-> HeaderStatus(words),
     pan |-> TextOrEmpty(FirstMatch(words, {k \in 1..Len(words) : Len(words[k].text) = 10 /\ IsAlnum(words[k].text) /\ RLt(words[k].top, Q(120))})),
     folio |-> TextOrEmpty(FirstMatch(words, {k \in 1..Len(words) : IsDigit(words[k].text) /\ Len(words[k].text) >= 8 /\ RLt(words[k].top, Q(120))})),
     name |-> HeaderName(words),
     mobile |-> TextOrEmpty(FirstMatch(words, {k \in 1..Len(words) : IsDigit(words[k].text) /\ Len(words[k].text) = 10 /\ RLe(Q(150), words[k].top) /\ RLe(words[k].top, Q(170))})),
     address |-> HeaderAddress(words)]

\* ------------------------------------------------------------------------
\* pandas: insert, concat, fillna/astype(str); _table_to_rows
\* ------------------------------------------------------------------------

\* str(n) for n >= 0
RECURSIVE IntToText(_)
IntToText(n) == LET d == <<"0","1","2","3","4","5","6","7","8","9">>[(n % 10) + 1] IN IF n < 10 THEN <<d>> ELSE Append(IntToText(n \div 10), d)

\* df.insert(0, name, value): [raised, df]; pandas raises ValueError when the
\* frame already has a column of that name
InsertFirst(df, name, value) ==
    IF name \in Range(df.columns) THEN [raised |-> TRUE, df |-> df]
    ELSE [raised |-> FALSE, df |-> [columns |-> <<name>> \o df.columns, rows |-> [r \in 1..Len(df.rows) |-> <<value>> \o df.rows[r]]]]

HasDuplicates(s) == \E i, j \in 1..Len(s) : i < j /\ s[i] = s[j]

\* pd.concat([a, b], ignore_index=True): [raised, df].  Equal column lists:
\* the rows of b follow the rows of a.  Otherwise the columns are the union
\* (a's, then b's new ones) and the missing values are NaN, which pandas can
\* do only for uniquely named columns.
Concat(a, b) ==
    IF a.columns = b.columns THEN [raised |-> FALSE, df |-> [columns |-> a.columns, rows |-> a.rows \o b.rows]]
    ELSE IF HasDuplicates(a.columns) \/ HasDuplicates(b.columns) THEN [raised |-> TRUE, df |-> a]
    ELSE LET new == Select(b.columns, {j \in 1..Len(b.columns) : b.columns[j] \notin Range(a.columns)})
             cols == a.columns \o new
             at(df, r, c) == IF c \in Range(df.columns) THEN df.rows[r][CHOOSE j \in 1..Len(df.columns) : df.columns[j] = c] ELSE NaN
         IN [raised |-> FALSE,
             df |-> [columns |-> cols,
                     rows |-> [r \in 1..Len(a.rows) |-> [j \in 1..Len(cols) |-> at(a, r, cols[j])]]
                              \o [r \in 1..Len(b.rows) |-> [j \in 1..Len(cols) |-> at(b, r, cols[j])]]]]

\* df.empty
IsEmptyFrame(df) == df.columns = <<>> \/ df.rows = <<>>

\* ------------------------------------------------------------------------
\* Objects.  A list, a dict, a DataFrame and a CapitalGainStatement are
\* objects: a name holds a reference, and append, extend and fillna change
\* or leave the object they are called on.  objs[r] is the content of the
\* object with reference r.  A str, a tuple, a _Word and an ExtractedCell do
\* not change and are written as values.
\* ------------------------------------------------------------------------

\* a new object with content v: [objs, ret], ret being its reference
NewObject(objs, v) == [objs |-> Append(objs, v), ret |-> Len(objs) + 1]

\* lst.append(x)
ListAppend(objs, lst, x) == [objs EXCEPT ![lst] = Append(@, x)]

\* lst.extend(xs)
ListExtend(objs, lst, xs) == [objs EXCEPT ![lst] = @ \o xs]

\* the content of a frame with "" for each missing value
Filled(df) == [df EXCEPT !.rows = [r \in 1..Len(df.rows) |-> [j \in 1..Len(df.columns) |-> IF df.rows[r][j] = NaN THEN <<>> ELSE df.rows[r][j]]]]

\* A fillna that fills the frame it is called on (inplace=True).
FillNaInPlace(objs, df) == [objs |-> [objs EXCEPT ![df] = Filled(@)], ret |-> df]

\* df.fillna(""): [objs, ret], ret a new frame; df is left as it is
FillNa(objs, df) == NewObject(objs, Filled(objs[df]))

\* p.ret.astype(str): a new frame; the values left by fillna("") are str
AsTypeStr(p) == NewObject(p.objs, p.objs[p.ret])

\* p.ret.extend(xs), p.ret being a list
Extended(p, xs) == [objs |-> ListExtend(p.objs, p.ret, xs), ret |-> p.ret]

\* rows = [list(df_str.columns)]; rows.extend(df_str.values.tolist()) for
\* the frame df_str = p.ret: rows is a new list, and so is each of its rows
RowsOfFrame(p) == Extended(NewObject(p.objs, <<p.objs[p.ret].columns>>), p.objs[p.ret].rows)

\* [objs, ret]: ret refers to the list of rows, a new list
_table_to_rows(objs, df) ==
    IF IsEmptyFrame(objs[df]) THEN NewObject(objs, <<objs[df].columns>>)
    ELSE RowsOfFrame(AsTypeStr(FillNa(objs, df)))

\* ------------------------------------------------------------------------
\* parse_capital_gain_statement: the body of the page loop
\* ------------------------------------------------------------------------

\* _word_from_pdf(word_dict, page_index=page_index)
_word_from_pdf(word_dict, pg) == Word(word_dict.text, FloatOf(word_dict.x0), FloatOf(word_dict.x1), FloatOf(word_dict.top), FloatOf(word_dict.bottom), pg)

\* words = [_word_from_pdf(word, page_index=page_index) for word in raw_words]
PageWords(page, pg) == [k \in 1..Len(page.words) |-> _word_from_pdf(page.words[k], pg)]

\* The summary step of a page: [summary_frames, all_cells] after the
\* try/except of page 0 (a ValueError of the summary parse, or of the insert
\* of the Page column, is passed over); other pages leave both alone.
SummaryResult(acc, parsed, pg, multi) ==
    LET paged == IF multi THEN InsertFirst(parsed.df, S_Page, IntToText(pg + 1)) ELSE [raised |-> FALSE, df |-> parsed.df]
    IN IF parsed.raised \/ paged.raised THEN [summary_frames |-> acc.summary_frames, all_cells |-> acc.all_cells]
       ELSE [summary_frames |-> Append(acc.summary_frames, paged.df), all_cells |-> acc.all_cells \o parsed.cells]

\* A summary step that looks at what the pages before have left: the summary
\* is parsed on the first page that finds no summary frame.
SummaryStepUntilFound(acc, words, pg, multi) ==
    IF acc.summary_frames # <<>> THEN [summary_frames |-> acc.summary_frames, all_cells |-> acc.all_cells]
    ELSE SummaryResult(acc, _parse_summary_table(words), pg, multi)

SummaryStep(acc, words, pg, multi) ==
    IF pg # 0 THEN [summary_frames |-> acc.summary_frames, all_cells |-> acc.all_cells]
    ELSE SummaryResult(acc, _parse_summary_table(words), pg, multi)

\* section_tables after one (section_name, df) of page_sections: [raised, tables]
MergeSection(tables, section_name, df, pg, multi) ==
    LET paged == IF multi THEN InsertFirst(df, S_Page, IntToText(pg + 1)) ELSE [raised |-> FALSE, df |-> df]
        merged == IF section_name \in DOMAIN tables THEN Concat(tables[section_name], paged.df) ELSE paged
    IN IF paged.raised \/ merged.raised THEN [raised |-> TRUE, tables |-> tables]
       ELSE [raised |-> FALSE, tables |-> [n \in DOMAIN tables \cup {section_name} |-> IF n = section_name THEN merged.df ELSE tables[n]]]

\* the loop over page_sections.items(); each name is merged on its own
RECURSIVE MergeSections(_, _, _, _, _)
MergeSections(tables, page_sections, names, pg, multi) ==
    IF names = {} THEN [raised |-> FALSE, tables |-> tables]
    ELSE LET n == CHOOSE n \in names : TRUE
             one == Calc("MergeSection", <<tables, n, page_sections[n], pg, multi>>)
         IN IF one.raised THEN one ELSE MergeSections(one.tables, page_sections, names \ {n}, pg, multi)

\* One iteration of "for page_index, page in enumerate(pdf_reader.pages)" on
\* the accumulators acc = [header, summary_frames, section_tables, all_cells]:
\* [raised, acc].  raised stands for an exception that leaves the function.
PageMerge(acc, hdr, summ, detail, pg, multi) ==
    LET merged == Calc("MergeSections", <<acc.section_tables, detail.section_tables, DOMAIN detail.section_tables, pg, multi>>)
    IN IF detail.raised \/ merged.raised THEN [raised |-> TRUE, acc |-> acc]
       ELSE [raised |-> FALSE,
             acc |-> [header |-> hdr, summary_frames |-> summ.summary_frames, section_tables |-> merged.tables, all_cells |-> summ.all_cells \o detail.cells]]

PageSteps(acc, words, text, pg, multi) ==
    PageMerge(acc, IF acc.header = None /\ pg = 0 THEN Some(Calc("_extract_header", <<words, text>>)) ELSE acc.header, SummaryStep(acc, words, pg, multi), _parse_detail_sections(words), pg, multi)

ProcessPage(acc, page, pg, multi) == PageSteps(acc, Calc("PageWords", <<page, pg>>), page.text, pg, multi)

\* pd.concat(summary_frames, ignore_index=True) if summary_frames else pd.DataFrame()
RECURSIVE ConcatAll(_)
ConcatAll(frames) == IF Len(frames) = 1 THEN frames[1] ELSE Concat(ConcatAll(SubSeq(frames, 1, Len(frames) - 1)), frames[Len(frames)]).df

\* CapitalGainStatement(header, summary_table, sections, cells)
CapitalGainStatement(acc) ==
    [header |-> IF acc.header = None THEN EmptyDict ELSE acc.header[1],
     summary_table |-> IF acc.summary_frames # <<>> THEN ConcatAll(acc.summary_frames) ELSE EmptyFrame,
     sections |-> acc.section_tables,
     cells |-> acc.all_cells]

\* a < b for str
RECURSIVE TextLt(_, _)
TextLt(a, b) ==
    IF a = <<>> \/ b = <<>> THEN a = <<>> /\ b # <<>>
    ELSE IF a[1] # b[1] /\ Calc("CodePoint", <<a[1]>>) # Calc("CodePoint", <<b[1]>>) THEN Calc("CodePoint", <<a[1]>>) < Calc("CodePoint", <<b[1]>>)
    ELSE TextLt(Tail(a), Tail(b))

\* sorted(names) for a set of str
RECURSIVE SortedTexts(_)
SortedTexts(S) == IF S = {} THEN <<>> ELSE LET m == CHOOSE x \in S : \A y \in S : ~TextLt(y, x) IN <<m>> \o SortedTexts(S \ {m})

\* The statement as parse_capital_gain_statement hands it over, [objs, ret]:
\* the header dict, the summary_table frame, the cells list and the section
\* frames are objects of their own, the sections dict holds the references
\* of its frames and the statement those of its four fields.
Stored(self) ==
    LET names == SortedTexts(DOMAIN self.sections)
        parts == <<self.header, self.summary_table, self.cells>> \o [k \in 1..Len(names) |-> self.sections[names[k]]]
        sections == NewObject(parts, [n \in DOMAIN self.sections |-> 3 + (CHOOSE k \in 1..Len(names) : names[k] = n)])
    IN NewObject(sections.objs, [header |-> 1, summary_table |-> 2, sections |-> sections.ret, cells |-> 3])

\* what the statement with reference self holds: its fields read through
\* their references
Loaded(objs, self) ==
    [header |-> objs[objs[self].header],
     summary_table |-> objs[objs[self].summary_table],
     sections |-> [n \in DOMAIN objs[objs[self].sections] |-> objs[objs[objs[self].sections][n]]],
     cells |-> objs[objs[self].cells]]

\* ------------------------------------------------------------------------
\* CapitalGainStatement.cross_check_against_pdf
\* ------------------------------------------------------------------------

\* A cross-check that reads the first page only.
PdfWordsFirstPage(doc) == IF doc = <<>> THEN <<>> ELSE PageWords(doc[1], 0)

\* pdf_words: the words of every page of the re-opened document
PdfWords(doc) == Flatten([p \in 1..Len(doc) |-> Calc("PageWords", <<doc[p], p - 1>>)])

\* A check that compares positions only.
HasMatchIgnoringText(token, pdf_words) ==
    \E k \in 1..Len(pdf_words) :
        /\ RLe(RAbs(RSub(Center(pdf_words[k]), Center(token))), Half(5))
        /\ RLe(RAbs(RSub(pdf_words[k].top, token.top)), Half(3))

\* "matches" is non-empty: some word has the token's text and lies within
\* 2.5 of its center and 1.5 of its top
HasMatch(token, pdf_words) ==
    \E k \in 1..Len(pdf_words) :
        /\ pdf_words[k].text = token.text
        /\ RLe(RAbs(RSub(Center(pdf_words[k]), Center(token))), Half(5))
        /\ RLe(RAbs(RSub(pdf_words[k].top, token.top)), Half(3))

\* the message appended for a cell and the first of its tokens without match
IssueText(cell, token) ==
    (IF cell.section = None \/ cell.section[1] = <<>> THEN S_Summary ELSE cell.section[1])
    \o <<" ","-",">"," ">> \o cell.column \o <<":"," ","t","o","k","e","n"," ","'">> \o token.text
    \o <<"'"," ","n","o","t"," ","f","o","u","n","d"," ","n","e","a","r"," ","e","x","p","e","c","t","e","d"," ","p","o","s","i","t","i","o","n",".">>

\* A check that reports a cell only when none of its tokens has a match.
CellIssuesWhenNoneMatch(cell, pdf_words) ==
    IF \E t \in 1..Len(cell.words) : HasMatch(cell.words[t], pdf_words) THEN <<>> ELSE <<IssueText(cell, cell.words[1])>>

\* the issues of one cell: none, or one for its first token without match
CellIssues(cell, pdf_words) ==
    LET missing == {t \in 1..Len(cell.words) : ~HasMatch(cell.words[t], pdf_words)}
    IN IF missing = {} THEN <<>> ELSE <<IssueText(cell, cell.words[CHOOSE t \in missing : \A u \in missing : t <= u])>>

\* issues.append(...) for a cell with a token without match
IssueAppended(objs, issue_list, found) == IF found = <<>> THEN objs ELSE ListAppend(objs, issue_list, found[1])

\* "for cell in self.cells" from the c-th cell of the list cells on
RECURSIVE CheckCells(_, _, _, _, _)
CheckCells(objs, cells, c, pdf_words, issue_list) ==
    IF c > Len(objs[cells]) THEN objs
    ELSE CheckCells(IssueAppended(objs, issue_list, CellIssues(objs[cells][c], pdf_words)), cells, c + 1, pdf_words, issue_list)

\* the body after "issues: list[str] = []", p.ret being issues: pdf_words
\* is a list of its own that is only read
CheckedAgainst(p, self, doc) ==
    [objs |-> CheckCells(p.objs, p.objs[self].cells, 1, PdfWords(doc), p.ret), self |-> self, ret |-> p.ret]

\* [objs, self, ret]: ret refers to issues, a new list
cross_check_against_pdf(objs, self, doc) == CheckedAgainst(NewObject(objs, <<>>), self, doc)

\* ------------------------------------------------------------------------
\* CapitalGainStatement.to_combined_csv
\* ------------------------------------------------------------------------

S_Title == <<"C","a","p","i","t","a","l"," ","G","a","i","n"," ","/"," ","L","o","s","s"," ","U+2013"," ","S","c","h","e","m","e"," ","l","e","v","e","l">>

\* p.ret.append(row), p.ret being raw_rows
Appended(p, row) == [objs |-> ListAppend(p.objs, p.ret, row), ret |-> p.ret]

\* raw_rows.extend(rows) for the list rows = r.ret that _table_to_rows returned
ExtendedWith(raw_rows, r) == [objs |-> ListExtend(r.objs, raw_rows, r.objs[r.ret]), ret |-> raw_rows]

\* raw_rows.extend(_table_to_rows(self.summary_table)), p.ret being raw_rows
ExtendedBySummary(p, self) == ExtendedWith(p.ret, _table_to_rows(p.objs, p.objs[self].summary_table))

\* raw_rows.extend(_table_to_rows(self.sections[section_name]))
ExtendedBySection(p, self, section_name) == ExtendedWith(p.ret, _table_to_rows(p.objs, p.objs[p.objs[self].sections][section_name]))

\* "for section_name in sorted(self.sections.keys())" for the names left:
\* raw_rows gets the name, the rows of the section's table and a blank row
RECURSIVE SectionRowsLoop(_, _, _)
SectionRowsLoop(p, self, names) ==
    IF names = <<>> THEN p
    ELSE SectionRowsLoop(Appended(ExtendedBySection(Appended(p, <<Head(names)>>), self, Head(names)), <<(<<>>)>>), self, Tail(names))

\* the loop over the sections, sorted by name
SortedSectionRows(p, self) == SectionRowsLoop(p, self, SortedTexts(DOMAIN p.objs[p.objs[self].sections]))

\* raw_rows, a new list: title, summary rows, blank, then per section the
\* name, its rows and a blank; [objs, ret], ret referring to raw_rows
RawRows(objs, self) ==
    SortedSectionRows(Appended(ExtendedBySummary(Appended(NewObject(objs, <<>>), <<S_Title>>), self), <<(<<>>)>>), self)

\* A width taken from the title row alone.
WidthOfTitle(rows) == Len(rows[1])

\* max(len(row) for row in raw_rows)
MaxLen(rows) == CHOOSE n \in {Len(rows[i]) : i \in 1..Len(rows)} : \A i \in 1..Len(rows) : Len(rows[i]) <= n

\* row + [""] * (width - len(row)) for each row: new lists
Padded(raw_rows, width) == [i \in 1..Len(raw_rows) |-> raw_rows[i] \o [k \in 1..(width - Len(raw_rows[i])) |-> <<>>]]

\* the rows handed to writer.writerow, p.ret being raw_rows
Written(p, self) == [objs |-> p.objs, self |-> self, written |-> Padded(p.objs[p.ret], MaxLen(p.objs[p.ret]))]

\* [objs, self, written]
to_combined_csv(objs, self) == Written(RawRows(objs, self), self)

\* ------------------------------------------------------------------------
\* CapitalGainStatement.to_csv
\* ------------------------------------------------------------------------

\* section_name.lower().replace(" ", "_").replace("/", "_").replace(":", "")
CleanSection(section_name) ==
    LET lowered == ToLower(section_name)
    IN RemoveChar([k \in 1..Len(lowered) |-> IF lowered[k] \in {" ", "/"} THEN "_" ELSE lowered[k]], ":")

\* df.to_csv(path, index=False) as rows of fields: the column names, then
\* the rows, a missing value written as the empty string
FrameCsv(df) == <<df.columns>> \o [r \in 1..Len(df.rows) |-> [j \in 1..Len(df.columns) |-> IF df.rows[r][j] = NaN THEN <<>> ELSE df.rows[r][j]]]

\* [objs, self, files]: the files written, <stem>_summary.csv and
\* <stem>_<clean_section>.csv for each section; the body makes no object and
\* calls nothing but DataFrame.to_csv on the frames
to_csv(objs, self) ==
    [objs |-> objs, self |-> self,
     files |-> [summary |-> FrameCsv(objs[objs[self].summary_table]),
                sections |-> [n \in DOMAIN objs[objs[self].sections] |-> [clean_section |-> CleanSection(n), rows |-> FrameCsv(objs[objs[objs[self].sections][n]])]]]]

\* ------------------------------------------------------------------------
\* Documents the parser is run on
\* ------------------------------------------------------------------------

MaxPages == 2
MaxRuns == 3
MaxClusterWords == 3
MaxLabels == 3
MaxHeaderCols == 11
MaxColumnWords == 3
MaxHeaderTokens == 3
MaxSpacedTokens == 4

\* a word as pdfplumber gives it: text and box (bottom 8 under top)
RawWord(text, x0, x1, top) == [text |-> text, x0 |-> Q(x0), x1 |-> Q(x1), top |-> Q(top), bottom |-> Q(top + 8)]

T_Colon == <<":">>
T_One == <<"1">>
T_Amount == <<"2",".","5">>
T_RupeeOne == <<"U+20B9","1">>
T_Sum == <<"3",".","5">>
T_Fund == <<"F","u","n","d">>
T_Gain == <<"G","a","i","n">>
T_Loss == <<"L","o","s","s">>
T_Scheme == <<"S","c","h","e","m","e">>
T_Count == <<"C","o","u","n","t">>

\* the three words "Section", letter, ":" of a label with mean center at
\* "center", on the line at "top"
LabelWords(letter, center, top) ==
    <<RawWord(S_Section, center - 21, center - 1, top), RawWord(letter, center + 1, center + 5, top), RawWord(T_Colon, center + 7, center + 9, top)>>

\* the j-th header word of a section: "H1", "H2", ...
HeaderCell(x, j) == RawWord(<<"H">> \o IntToText(j), x + 30 * (j - 1), x + 30 * (j - 1) + 10, 350)

\* the j-th token of a data line: a number in column j
DataCell(x, j, top) == RawWord(IF j = 1 THEN T_One ELSE T_Amount, x + 30 * (j - 1), x + 30 * (j - 1) + 8, top)

SectionWidth(sec) == 30 * (IF sec.ncols > sec.ndata THEN (IF sec.ncols > 2 THEN sec.ncols ELSE 2) ELSE (IF sec.ndata > 2 THEN sec.ndata ELSE 2))

\* A section laid out from x: its label centered over it (top 320), ncols
\* header words (top 350), one line of ndata numbers (top 380) and, with
\* total, a "Total" line (top 400)
SectionBlock(sec, x) ==
    LabelWords(sec.letter, x + SectionWidth(sec) \div 2, 320)
    \o [j \in 1..sec.ncols |-> HeaderCell(x, j)]
    \o [j \in 1..sec.ndata |-> DataCell(x, j, 380)]
    \o (IF sec.total THEN <<RawWord(S_Total, x, x + 20, 400), RawWord(T_Sum, x + 30, x + 38, 400)>> ELSE <<>>)

\* sections side by side, 200 apart
RECURSIVE SectionBlocks(_, _)
SectionBlocks(secs, x) == IF secs = <<>> THEN <<>> ELSE SectionBlock(Head(secs), x) \o SectionBlocks(Tail(secs), x + SectionWidth(Head(secs)) + 200)

Sec(letter, ncols, ndata, total) == [letter |-> letter, ncols |-> ncols, ndata |-> ndata, total |-> total]

\* the summary table of page 0: header words, and with "row" the scheme row
\* and the total row
SummaryBlock(row) ==
    <<RawWord(T_Scheme, 10, 40, 235), RawWord(T_Count, 100, 125, 235)>>
    \o (IF row THEN <<RawWord(T_Fund, 10, 30, 255), RawWord(T_One, 110, 114, 255), RawWord(S_Total, 10, 30, 275)>> ELSE <<>>)

\* a summary table whose scheme name is two words, "Fund Scheme", 3 apart
SchemeNameBlock ==
    <<RawWord(T_Scheme, 10, 40, 235), RawWord(T_Count, 100, 125, 235),
      RawWord(T_Fund, 10, 30, 255), RawWord(T_Scheme, 33, 60, 255), RawWord(T_One, 110, 114, 255), RawWord(S_Total, 10, 30, 275)>>

\* the statement's heading lines
HeadingBlock ==
    <<RawWord(<<"S","t","a","t","u","s">>, 10, 40, 60), RawWord(T_Colon, 42, 44, 60), RawWord(<<"R","E","S","I","D","E","N","T">>, 50, 100, 60),
      RawWord(S_PAN, 200, 215, 60), RawWord(T_Colon, 217, 219, 60), RawWord(<<"A","B","C","D","E","1","2","3","4","F">>, 225, 275, 60),
      RawWord(S_Name, 10, 35, 90), RawWord(T_Colon, 37, 39, 90), RawWord(<<"V">>, 50, 55, 90), RawWord(<<"E">>, 57, 62, 90), RawWord(<<"D">>, 64, 69, 90), RawWord(<<"G","H","A","D","I">>, 80, 110, 90),
      RawWord(<<"5","1","0","2","4","5","3","3","9","3","4">>, 225, 280, 110),
      RawWord(<<"M","U","M","B","A","I">>, 10, 50, 130), RawWord(<<"9","8","7","6","5","4","3","2","1","0">>, 50, 100, 155)>>

HeadingText == <<"C","a","p","i","t","a","l"," ","G","a","i","n"," ","S","t","a","t","e","m","e","n","t">> \o <<"\n">> \o <<" ","F","o","r"," ","t","h","e"," ","p","e","r","i","o","d"," ","0","1","/","0","4","/","2","0","2","3"," ","t","o"," ","3","1","/","0","3","/","2","0","2","4"," ">> \o <<"\n">>

\* a page: [words, text]
Page(words, text) == [words |-> words, text |-> text]

\* The pages documents are made of: a first page with heading, summary and
\* sections A and C; the same without summary row; a page of sections only;
\* a page whose section C has one column more than its schema; a page with a
\* section without data row beside one with; a page without words; a page
\* whose summary has a scheme name of two words.
PageTemplates == <<
    Page(HeadingBlock \o SummaryBlock(TRUE) \o SectionBlocks(<<Sec(<<"A">>, 2, 2, TRUE), Sec(<<"C">>, 6, 2, FALSE)>>, 10), HeadingText),
    Page(HeadingBlock \o SummaryBlock(FALSE) \o SectionBlocks(<<Sec(<<"A">>, 2, 2, TRUE)>>, 10), HeadingText),
    Page(SectionBlocks(<<Sec(<<"A">>, 2, 2, FALSE), Sec(<<"C">>, 0, 3, TRUE)>>, 10), <<>>),
    Page(SummaryBlock(TRUE) \o SectionBlocks(<<Sec(<<"A">>, 3, 2, FALSE)>>, 10), <<>>),
    Page(SectionBlocks(<<Sec(<<"C">>, 7, 2, FALSE)>>, 10), <<>>),
    Page(SummaryBlock(TRUE) \o SectionBlocks(<<Sec(<<"A">>, 2, 0, TRUE), Sec(<<"C">>, 2, 2, TRUE)>>, 10), HeadingText),
    Page(<<>>, <<>>),
    Page(SchemeNameBlock \o SectionBlocks(<<Sec(<<"A">>, 2, 2, FALSE)>>, 10), <<>>) >>

\* the sequences over S of length at most n
RECURSIVE SeqsUpTo(_, _)
SeqsUpTo(S, n) == IF n = 0 THEN {<<>>} ELSE LET shorter == SeqsUpTo(S, n - 1) IN shorter \cup {Append(q, x) : q \in {q \in shorter : Len(q) = n - 1}, x \in S}

\* the pages that follow a first page: a full page, a page of sections only,
\* a page whose section C has one column more than its schema
LaterPageTemplates == {PageTemplates[1], PageTemplates[3], PageTemplates[5]}

\* the documents: no page, or a first page followed by at most MaxPages - 1 pages
Documents == {<<>>} \cup {<<first>> \o rest : first \in Range(PageTemplates), rest \in SeqsUpTo(LaterPageTemplates, MaxPages - 1)}

\* two statements of one page
OnePageDocument == <<PageTemplates[1]>>
SchemeNameDocument == <<PageTemplates[8]>>

\* the documents of a caller that parses again and again: no page; a page
\* without words; a page that raises; statements of one and of two pages; a
\* statement whose second page raises
RunsDocuments ==
    {<<>>, <<PageTemplates[7]>>, <<PageTemplates[5]>>, OnePageDocument, SchemeNameDocument,
     <<PageTemplates[1], PageTemplates[1]>>, <<PageTemplates[2], PageTemplates[3]>>, <<PageTemplates[1], PageTemplates[3]>>}

\* the paths the caller has files at
Paths == {"a.pdf", "b.pdf", "c.pdf"}

\* The files of a caller whose file a.pdf holds doc: b.pdf is a copy of it
\* written by another producer, with the same words and text on every page;
\* c.pdf is another statement.  The parser reads the pages of a file only.
Files(doc) ==
    [p \in Paths |->
        IF p = "a.pdf" THEN [pages |-> doc, producer |-> "cairo"]
        ELSE IF p = "b.pdf" THEN [pages |-> doc, producer |-> "qpdf"]
        ELSE [pages |-> IF doc = OnePageDocument THEN SchemeNameDocument ELSE OnePageDocument, producer |-> "cairo"]]

\* the words of a re-opened document moved by dx (across) and dt (down)
Shifted(doc, dx, dt) == [p \in 1..Len(doc) |-> [doc[p] EXCEPT !.words = [k \in 1..Len(doc[p].words) |-> [doc[p].words[k] EXCEPT !.x0 = RAdd(@, dx), !.x1 = RAdd(@, dx), !.top = RAdd(@, dt), !.bottom = RAdd(@, dt)]]]]

\* the same boxes holding other text
Retyped(doc) == [p \in 1..Len(doc) |-> [doc[p] EXCEPT !.words = [k \in 1..Len(doc[p].words) |-> [doc[p].words[k] EXCEPT !.text = ToLower(@) \o <<"~">>]]]]

\* every second word holding other text: the words at the positions that
\* leave remainder r on division by 2
RetypedEverySecond(doc, r) == [p \in 1..Len(doc) |-> [doc[p] EXCEPT !.words = [k \in 1..Len(doc[p].words) |-> IF k % 2 = r THEN [doc[p].words[k] EXCEPT !.text = ToLower(@) \o <<"~">>] ELSE doc[p].words[k]]]]

\* What a second extraction of the document may yield: the same words; the
\* words moved up to and past the tolerances 2.5 and 1.5; other text in all
\* or in every second word; no page
\* the boxes of the last page holding other text
RetypedLastPage(doc) == [p \in 1..Len(doc) |-> IF p = Len(doc) THEN Retyped(doc)[p] ELSE doc[p]]

FreshExtractions(doc) ==
    {Shifted(doc, d[1], d[2]) : d \in {<<Q(0), Q(0)>>, <<Half(5), Half(3)>>, <<Q(3), Q(0)>>, <<Q(0), Q(2)>>}}
    \cup {Retyped(doc), RetypedEverySecond(doc, 0), RetypedEverySecond(doc, 1), RetypedLastPage(doc), <<>>}

\* The operation named op on the operands v.  As in the source, the operands
\* are evaluated before the operation is entered.
Calc(op, v) ==
    IF v = <<>> THEN <<>>
    ELSE CASE op = "+" -> Added(v[1], v[2])
           [] op = "-" -> Subtracted(v[1], v[2])
           [] op = "/" -> Divided(v[1], v[2])
           [] op = "<" -> Less(v[1], v[2])
           [] op = "float" -> AsFloat(v[1])
           [] op = "BigAdd" -> BigAdd(v[1], v[2])
           [] op = "BigSub" -> BigSub(v[1], v[2])
           [] op = "BigLt" -> BigLt(v[1], v[2])
           [] op = "BigShl" -> BigShl(v[1], v[2])
           [] op = "BigShr" -> BigShr(v[1], v[2])
           [] op = "BigBits" -> BigBits(v[1])
           [] op = "BigZeros" -> BigZeros(v[1])
           [] op = "BigDivMod" -> BigDivMod(v[1], v[2])
           [] op = "FNorm" -> FNorm(v[1], v[2], v[3])
           [] op = "FRoundAt" -> FRoundAt(v[1], v[2], v[3], v[4], v[5])
           [] op = "FRound" -> FRound(v[1], v[2], v[3], v[4])
           [] op = "FDivInt" -> FDivInt(v[1], v[2])
           [] op = "ToFloat" -> ToFloat(v[1])
           [] op = "Float" -> Float(v[1])
           [] op = "FAdd" -> FAdd(v[1], v[2])
           [] op = "FBelow" -> FBelow(v[1], v[2])
           [] op = "FLt" -> FLt(v[1], v[2])
           [] op = "LowerChar" -> LowerChar(v[1], v[2])
           [] op = "CodePoint" -> CodePoint(v[1])
           [] op = "SortedIndices" -> SortedIndices(v[1])
           [] op = "AddressTops" -> AddressTops(v[1])
           [] op = "Strip" -> Strip(v[1])
           [] op = "LabelSequence" -> LabelSequence(v[1], v[2], v[3])
           [] op = "LowerPoint" -> LowerPoint(v[1])
           [] op = "IsAlpha" -> IsAlpha(v[1])
           [] op = "_group_words_by_line" -> _group_words_by_line(v[1], v[2])
           [] op = "MergeSection" -> MergeSection(v[1], v[2], v[3], v[4], v[5])
           [] op = "FindSub" -> FindSub(v[1], v[2])
           [] op = "ProcessPage" -> ProcessPage(v[1], v[2], v[3], v[4])
           [] op = "FreshExtractions" -> FreshExtractions(v[1])
           [] op = "cross_check_against_pdf" -> cross_check_against_pdf(Stored(v[1]).objs, Stored(v[1]).ret, v[2])
           [] op = "to_csv" -> to_csv(Stored(v[1]).objs, Stored(v[1]).ret)
           [] op = "to_combined_csv" -> to_combined_csv(Stored(v[1]).objs, Stored(v[1]).ret)
           [] op = "MergeSections" -> MergeSections(v[1], v[2], v[3], v[4], v[5])
           [] op = "_cluster_row_words" -> _cluster_row_words(v[1], v[2])
           [] op = "_group_header_columns" -> _group_header_columns(v[1], v[2])
           [] op = "SectionColumns" -> SectionColumns(v[1], v[2], v[3])
           [] op = "_extract_header" -> _extract_header(v[1], v[2])
           [] op = "_detect_sections" -> _detect_sections(v[1])
           [] op = "SectionStep" -> SectionStep(v[1], v[2], v[3])
           [] op = "_normalize_spaced_tokens" -> _normalize_spaced_tokens(v[1])
           [] op = "PageWords" -> PageWords(v[1], v[2])
           [] op = "_extract_row_cells" -> _extract_row_cells(v[1], v[2], v[3])
           [] op = "_build_columns_from_clusters" -> _build_columns_from_clusters(v[1], v[2], v[3])

\* ------------------------------------------------------------------------
\* parse_capital_gain_statement and its caller
\* ------------------------------------------------------------------------

\* A parse that keeps the lists of the call before.
StaleAccumulators == [header |-> header, summary_frames |-> summary_frames, section_tables |-> section_tables, all_cells |-> all_cells]

\* summary_frames = [], section_tables = {}, all_cells = [], header = None
FreshAccumulators == [header |-> None, summary_frames |-> <<>>, section_tables |-> EmptyDict, all_cells |-> <<>>]

\* A parse that goes on without pages.
NoPagesIgnored(doc) == FALSE

\* not pdf_reader.pages
NoPages(doc) == doc = <<>>

Accumulators == [header |-> header, summary_frames |-> summary_frames, section_tables |-> section_tables, all_cells |-> all_cells]

SetAccumulators(acc) == /\ header' = acc.header /\ summary_frames' = acc.summary_frames /\ section_tables' = acc.section_tables /\ all_cells' = acc.all_cells

\* the call: fresh locals, then ValueError("No pages found in PDF") or the loop
ParseCall ==
    /\ pc = "idle"
    /\ runs' = runs + 1
    /\ SetAccumulators(FreshAccumulators)
    /\ IF NoPages(pdf)
       THEN pc' = "raised" /\ UNCHANGED <<page_index, multi_page>>
       ELSE pc' = "loop" /\ page_index' = 0 /\ multi_page' = (Len(pdf) > 1)
    /\ UNCHANGED <<callVars, files, pdf_path, pdf, statement, fresh, issues, csv_rows, csv_files, prev, page_results>>

\* the locals after an iteration with result r = [raised, acc]
PageOutcome(r) ==
    IF r.raised
    THEN pc' = "raised" /\ UNCHANGED <<page_index, header, summary_frames, section_tables, all_cells>>
    ELSE pc' = "loop" /\ page_index' = page_index + 1 /\ SetAccumulators(r.acc)

\* one iteration of the page loop; an exception leaves the function
ParsePage ==
    /\ pc = "loop"
    /\ page_index < Len(pdf)
    /\ PageOutcome(Calc("ProcessPage", <<Accumulators, pdf[page_index + 1], page_index, multi_page>>))
    /\ UNCHANGED <<callVars, files, pdf_path, pdf, multi_page, statement, fresh, issues, csv_rows, csv_files, runs, prev, page_results>>

\* after the last page: return CapitalGainStatement(...)
ParseReturn ==
    /\ pc = "loop"
    /\ page_index = Len(pdf)
    /\ statement' = Some(CapitalGainStatement(Accumulators))
    /\ pc' = "returned"
    /\ UNCHANGED <<callVars, files, pdf_path, pdf, page_index, multi_page, header, summary_frames, section_tables, all_cells, fresh, issues, csv_rows, csv_files, runs, prev, page_results>>

\* what cross_check_against_pdf leaves, done = [objs, self, ret]: issues is
\* the list returned, the statement what its objects hold now
CrossCheckOutcome(done) == issues' = Some(done.objs[done.ret]) /\ statement' = Some(Loaded(done.objs, done.self))

\* the caller runs statement.cross_check_against_pdf on a second extraction
CrossCheck ==
    /\ pc = "returned"
    /\ \E doc \in Calc("FreshExtractions", <<pdf>>) :
          /\ fresh' = Some(doc)
          /\ CrossCheckOutcome(Calc("cross_check_against_pdf", <<statement[1], doc>>))
    /\ UNCHANGED <<callVars, files, pdf_path, pdf, pc, page_index, multi_page, header, summary_frames, section_tables, all_cells, csv_rows, csv_files, runs, prev, page_results>>

\* what to_combined_csv leaves, done = [objs, self, written]
ToCombinedCsvOutcome(done) == csv_rows' = Some(done.written) /\ statement' = Some(Loaded(done.objs, done.self))

\* the caller runs statement.to_combined_csv
ToCombinedCsv ==
    /\ pc = "returned"
    /\ csv_rows = None
    /\ ToCombinedCsvOutcome(Calc("to_combined_csv", <<statement[1]>>))
    /\ UNCHANGED <<callVars, files, pdf_path, pdf, pc, page_index, multi_page, header, summary_frames, section_tables, all_cells, fresh, issues, csv_files, runs, prev, page_results>>

\* what to_csv leaves, done = [objs, self, files]
ToCsvOutcome(done) == csv_files' = Some(done.files) /\ statement' = Some(Loaded(done.objs, done.self))

\* the caller runs statement.to_csv
ToCsv ==
    /\ pc = "returned"
    /\ csv_files = None
    /\ ToCsvOutcome(Calc("to_csv", <<statement[1]>>))
    /\ UNCHANGED <<callVars, files, pdf_path, pdf, pc, page_index, multi_page, header, summary_frames, section_tables, all_cells, fresh, issues, csv_rows, runs, prev, page_results>>

\* the caller calls the parser once more, on any of its files: the reader
\* of that call gives the pages of the file at the path
ParseAgain ==
    /\ pc \in {"returned", "raised"}
    /\ runs < MaxRuns
    /\ prev' = Append(prev, [pdf_path |-> pdf_path, pdf |-> pdf, pc |-> pc, statement |-> statement, csv_rows |-> csv_rows])
    /\ \E p \in Paths : pdf_path' = p /\ pdf' = files[p].pages
    /\ pc' = "idle"
    /\ statement' = None /\ fresh' = None /\ issues' = None /\ csv_rows' = None /\ csv_files' = None
    /\ UNCHANGED <<callVars, files, page_index, multi_page, header, summary_frames, section_tables, all_cells, runs, page_results>>

CallIdle == call = [fn |-> "none"] /\ frame = None /\ ret = None

ParseInit(docs) ==
    /\ pdf \in docs
    /\ files = Files(pdf) /\ pdf_path = "a.pdf"
    /\ pc = "idle" /\ page_index = 0 /\ multi_page = FALSE
    /\ header = None /\ summary_frames = <<>> /\ section_tables = EmptyDict /\ all_cells = <<>>
    /\ statement = None /\ fresh = None /\ issues = None /\ csv_rows = None /\ csv_files = None
    /\ runs = 0 /\ prev = <<>> /\ page_results = <<>>

Init == CallIdle /\ ParseInit(Documents)

\* one call of the parser and what the caller does with the statement
Next == ParseCall \/ ParsePage \/ ParseReturn \/ CrossCheck \/ ToCsv \/ ToCombinedCsv

Spec == Init /\ [][Next]_vars

\* calls of the parser one after the other, each statement written as
\* combined CSV or not
RunsInit == CallIdle /\ ParseInit(RunsDocuments)

RunsNext == ParseCall \/ ParsePage \/ ParseReturn \/ ToCombinedCsv \/ ParseAgain

SpecRuns == RunsInit /\ [][RunsNext]_vars

\* ------------------------------------------------------------------------
\* Properties of parse_capital_gain_statement and its caller (Spec)
\* ------------------------------------------------------------------------

\* the cells of the returned statement
StatementCells == IF statement = None THEN <<>> ELSE statement[1].cells

\* C3: when the statement of a document is cross-checked against a second
\* extraction that yields the same words on every page, the issue list is empty.
CrossCheckSamePdfEmpty == (issues # None /\ fresh = Some(pdf)) => issues[1] = <<>>

\* a two-page document with recorded cells was checked against itself
CrossCheckSamePdfSeen == issues # None /\ fresh = Some(pdf) /\ Len(pdf) = 2 /\ \E i \in 1..Len(StatementCells) : StatementCells[i].words[1].page_index = 1

\* C4: a returned statement implies that page 0 had a word in the summary
\* data-row band, i.e. a missing summary row makes the whole parse fail.
SummaryFailureAborts == pc = "returned" => WordsInBand(PageWords(pdf[1], 0), Q(248), Q(265)) # <<>>

\* C5: the parse of a document without pages raises before any page is
\* processed: no header, summary frame, section table, cell or statement.
NoPagesRaises ==
    (pdf = <<>> /\ pc # "idle") =>
        /\ pc = "raised" /\ page_index = 0 /\ statement = None
        /\ header = None /\ summary_frames = <<>> /\ section_tables = EmptyDict /\ all_cells = <<>>

\* the parse of the document without pages has raised
NoPagesRaised == pdf = <<>> /\ pc = "raised" /\ runs >= 1

\* token t of a cell appears in the words of document doc with equal text,
\* |center difference| <= 2.5 and |top difference| <= 1.5
TokenAppears(t, doc) ==
    \E p \in 1..Len(doc) : \E k \in 1..Len(doc[p].words) :
        LET w == doc[p].words[k]
        IN /\ w.text = t.text
           /\ RLe(RAbs(RSub(RDiv(RAdd(w.x0, w.x1), 2), RDiv(RAdd(t.x0, t.x1), 2))), Half(5))
           /\ RLe(RAbs(RSub(w.top, t.top)), Half(3))

\* C8: cross_check_against_pdf returns a list whatever the second extraction
\* holds, and the list is empty exactly when every token of every recorded
\* cell appears in the second extraction within the tolerances.
CrossCheckEmptyIffAllMatch ==
    /\ (fresh # None) = (issues # None)
    /\ issues # None =>
          (issues[1] = <<>>) = (\A i \in 1..Len(StatementCells) : \A k \in 1..Len(StatementCells[i].words) : TokenAppears(StatementCells[i].words[k], fresh[1]))

\* a cross-check of recorded cells against moved words reported an issue
CrossCheckIssueSeen == issues # None /\ issues[1] # <<>> /\ fresh # Some(<<>>) /\ fresh # Some(Retyped(pdf))

\* C10: a call that has read the same words and the same text on every page
\* as a call before it ends as that call did, with an identical statement and
\* identical combined-CSV rows, whatever the path of either call and whatever
\* was parsed and written between them.
ParseTwiceSame ==
    \A i \in 1..Len(prev) :
        (pc \in {"returned", "raised"} /\ prev[i].pdf = pdf) =>
            /\ prev[i].pc = pc
            /\ prev[i].statement = statement
            /\ (csv_rows # None /\ prev[i].csv_rows # None) => csv_rows = prev[i].csv_rows

\* a two-page statement with cells was parsed and written from a.pdf, then
\* another statement was parsed and returned, then the copy at b.pdf was
\* parsed and written
ParseTwiceSeen ==
    /\ Len(prev) = 2 /\ pc = "returned" /\ csv_rows # None
    /\ prev[1].pdf = pdf /\ prev[1].pdf_path = "a.pdf" /\ pdf_path = "b.pdf" /\ prev[1].csv_rows # None
    /\ prev[2].pdf # pdf /\ prev[2].pc = "returned" /\ prev[2].statement[1].cells # <<>>
    /\ StatementCells # <<>> /\ Len(pdf) = 2

\* what _parse_detail_sections yields for each page of doc on its own
PageDetails(doc) == [p \in 1..Len(doc) |-> _parse_detail_sections(PageWords(doc[p], p - 1))]

\* the pages (1-based, ascending) whose details hold a table of section "name"
PagesWithSection(details, name) == IndicesIn(Len(details), {p \in 1..Len(details) : name \in DOMAIN details[p].section_tables})

\* p once for every row of the section's table of page p, page after page
PageTags(details, pages, name) ==
    Flatten([i \in 1..Len(pages) |-> [r \in 1..Len(details[pages[i]].section_tables[name].rows) |-> IntToText(pages[i])]])

\* the rows of the section's tables of the pages, page after page, each with
\* its page number in front
PageTaggedRows(details, pages, name) ==
    Flatten([i \in 1..Len(pages) |-> [r \in 1..Len(details[pages[i]].section_tables[name].rows) |-> <<IntToText(pages[i])>> \o details[pages[i]].section_tables[name].rows[r]]])

\* table t has "Page" as its first column and nowhere else
PageColumnFirst(t) == t.columns # <<>> /\ t.columns[1] = S_Page /\ \A j \in 2..Len(t.columns) : t.columns[j] # S_Page

\* table t of section "name" is tagged with the pages its rows come from, in
\* page order
SectionTagged(t, details, pages, name) ==
    /\ PageColumnFirst(t)
    /\ [r \in 1..Len(t.rows) |-> t.rows[r][1]] = PageTags(details, pages, name)
    /\ (\A i \in 1..Len(pages) : t.columns = <<S_Page>> \o details[pages[i]].section_tables[name].columns)
          => t.rows = PageTaggedRows(details, pages, name)

PageColumnsOf(st, n, details) ==
    IF n > 1
    THEN /\ PageColumnFirst(st.summary_table)
         /\ \A r \in 1..Len(st.summary_table.rows) : st.summary_table.rows[r][1] = IntToText(1)
         /\ \A name \in DOMAIN st.sections : SectionTagged(st.sections[name], details, PagesWithSection(details, name), name)
    ELSE /\ S_Page \notin Range(st.summary_table.columns)
         /\ \A name \in DOMAIN st.sections : S_Page \notin Range(st.sections[name].columns)

\* C14: in the statement of a document of several pages the summary table
\* and every section table have "Page" as first column, holding in each row
\* the 1-based number of the page the row comes from, and the rows of a
\* section follow each other in page order; in the statement of a one-page
\* document no table has a "Page" column.
PageColumnTagsRows == pc = "returned" => PageColumnsOf(statement[1], Len(pdf), PageDetails(pdf))

\* written row "row" is "fields" followed by empty strings up to width w
PaddedTo(row, fields, w) ==
    /\ Len(row) = w /\ Len(fields) <= w
    /\ \A j \in 1..w : row[j] = (IF j <= Len(fields) THEN fields[j] ELSE <<>>)

\* the number of rows a table takes in the file: its header and, unless the
\* table is empty, its rows
BlockHeight(df) == 1 + (IF IsEmptyFrame(df) THEN 0 ELSE Len(df.rows))

\* rows[at + 1 ..] hold the header of df, its rows (a missing value written
\* as the empty string) and a blank row
BlockAt(rows, at, df, w) ==
    /\ Len(rows) >= at + BlockHeight(df) + 1
    /\ PaddedTo(rows[at + 1], df.columns, w)
    /\ \A r \in 1..(BlockHeight(df) - 1) :
          PaddedTo(rows[at + 1 + r], [j \in 1..Len(df.columns) |-> IF df.rows[r][j] = NaN THEN <<>> ELSE df.rows[r][j]], w)
    /\ PaddedTo(rows[at + BlockHeight(df) + 1], <<>>, w)

\* the file row before the name row of the k-th section of "names"
RECURSIVE SectionOffset(_, _, _)
SectionOffset(self, names, k) ==
    IF k = 1 THEN 1 + BlockHeight(self.summary_table) + 1
    ELSE SectionOffset(self, names, k - 1) + 1 + BlockHeight(self.sections[names[k - 1]]) + 1

\* the block layout of the written rows for the sections in the order "names"
CombinedLayout(rows, self, names, w) ==
    /\ \A k \in 1..(Len(names) - 1) : TextLt(names[k], names[k + 1])
    /\ PaddedTo(rows[1], <<S_Title>>, w)
    /\ BlockAt(rows, 1, self.summary_table, w)
    /\ \A k \in 1..Len(names) :
          /\ PaddedTo(rows[SectionOffset(self, names, k) + 1], <<names[k]>>, w)
          /\ BlockAt(rows, SectionOffset(self, names, k) + 1, self.sections[names[k]], w)
    /\ Len(rows) = SectionOffset(self, names, Len(names) + 1)

\* the largest number of fields of a block row: 1 (title, names, blank rows)
\* or the number of columns of a table
WidestRow(self) ==
    CHOOSE n \in {1, Len(self.summary_table.columns)} \cup {Len(self.sections[s].columns) : s \in DOMAIN self.sections} :
        \A m \in {1, Len(self.summary_table.columns)} \cup {Len(self.sections[s].columns) : s \in DOMAIN self.sections} : m <= n

\* C15: the combined CSV holds the title row, the summary header and rows, a
\* blank row, and for each section in ascending order of name its name row,
\* header, rows and a blank row; every row has as many fields as the widest
\* row, shorter rows being filled up on the right with empty strings.
CombinedCsvLayout ==
    csv_rows # None =>
        CombinedLayout(csv_rows[1], statement[1], SortedTexts(DOMAIN statement[1].sections), WidestRow(statement[1]))

\* a statement with two sections of different widths and a summary was
\* written: rows were filled up
CombinedCsvSeen ==
    /\ csv_rows # None
    /\ Cardinality(DOMAIN statement[1].sections) = 2
    /\ \E s, t \in DOMAIN statement[1].sections : Len(statement[1].sections[s].columns) < Len(statement[1].sections[t].columns)
    /\ ~IsEmptyFrame(statement[1].summary_table)
    /\ Len(csv_rows[1][1]) > 2

\* C17: once a statement is returned, every step that leaves it returned
\* (cross_check_against_pdf, to_csv, to_combined_csv, in any order and with
\* any result) leaves its header, summary_table, sections and cells as they
\* were: what the objects of the statement hold after the method has run is
\* what they held before.
StatementUntouched == [][(pc = "returned" /\ pc' = "returned") => statement' = statement]_vars

\* a statement with cells and with a missing value in a section table has
\* been written by to_csv and by to_combined_csv, which wrote the missing
\* value as "", and cross-checked with issues reported
StatementUsedSeen ==
    /\ pc = "returned" /\ statement[1].cells # <<>>
    /\ csv_files # None /\ csv_rows # None
    /\ issues # None /\ issues[1] # <<>>
    /\ \E n \in DOMAIN statement[1].sections : \E r \in 1..Len(statement[1].sections[n].rows) : NaN \in Range(statement[1].sections[n].rows[r])

\* the positions of the tokens of a cell that do not appear in doc
MissingTokens(cell, doc) == {t \in 1..Len(cell.words) : ~TokenAppears(cell.words[t], doc)}

\* how an issue names cell and token: "<section or Summary> -> <column>:
\* token '<text>'"
IssueNames(cell, token) ==
    (IF cell.section = None THEN S_Summary ELSE cell.section[1]) \o <<" ", "-", ">", " ">> \o cell.column
    \o <<":", " ", "t", "o", "k", "e", "n", " ", "'">> \o token.text \o <<"'">>

\* "list" holds one issue for each cell at the positions "reported" of
\* "cells", in cell order, naming the cell and its first token missing in doc
IssuesAre(list, cells, reported, doc) ==
    /\ Len(list) = Len(reported)
    /\ \A i \in 1..Len(reported) :
          LET cell == cells[reported[i]]
              first == CHOOSE t \in MissingTokens(cell, doc) : \A u \in MissingTokens(cell, doc) : t <= u
          IN StartsWith(list[i], IssueNames(cell, cell.words[first]))

\* C18 as stated: the reported cells are exactly the cells none of whose
\* tokens is found in the second extraction; a cell with a token found
\* produces no issue.
CrossCheckReportsCellsWithoutAnyMatch ==
    issues # None =>
        IssuesAre(issues[1], StatementCells,
                  IndicesIn(Len(StatementCells), {c \in 1..Len(StatementCells) : MissingTokens(StatementCells[c], fresh[1]) = 1..Len(StatementCells[c].words)}),
                  fresh[1])

\* C18, amended: the reported cells are exactly the cells with at least one
\* token not found in the second extraction within tolerance; each yields
\* exactly one issue, in cell order, naming its section ("Summary" without
\* one), its column and its first token not found.
CrossCheckReportsCellsWithMissingToken ==
    issues # None =>
        IssuesAre(issues[1], StatementCells,
                  IndicesIn(Len(StatementCells), {c \in 1..Len(StatementCells) : MissingTokens(StatementCells[c], fresh[1]) # {}}),
                  fresh[1])

\* a cross-check reported a cell of two tokens of which one was found, and
\* left out a cell whose tokens were all found
CrossCheckMixedCellSeen ==
    /\ issues # None /\ issues[1] # <<>>
    /\ \E c \in 1..Len(StatementCells) :
          /\ MissingTokens(StatementCells[c], fresh[1]) # {}
          /\ MissingTokens(StatementCells[c], fresh[1]) # 1..Len(StatementCells[c].words)
    /\ \E c \in 1..Len(StatementCells) : MissingTokens(StatementCells[c], fresh[1]) = {}

\* ------------------------------------------------------------------------
\* _cluster_row_words on its own (SpecCluster)
\* ------------------------------------------------------------------------

\* no document is being parsed
ParseIdle == ParseInit({<<>>})

\* the boxes <<x0, x1>> the words of a row are drawn from: gaps of 4 and 35
\* (the thresholds in use), smaller and larger gaps, and overlapping boxes
ClusterBoxes == {<<0, 10>>, <<1, 3>>, <<7, 8>>, <<12, 15>>, <<50, 52>>, <<51, 53>>}

ClusterRows == SeqsUpTo({Word(T_One, Q(b[1]), Q(b[2]), Q(380), Q(388), 0) : b \in ClusterBoxes}, MaxClusterWords)

\* the thresholds of the two call sites: 35.0 (summary) and 4.0 (sections)
ClusterThresholds == {Q(4), Q(35)}

ClusterInit ==
    /\ \E ws \in ClusterRows, t \in ClusterThresholds : call = [fn |-> "_cluster_row_words", words |-> ws, gap_threshold |-> t]
    /\ frame = None /\ ret = None
    /\ ParseIdle

ClusterRun ==
    /\ call.fn = "_cluster_row_words" /\ ret = None
    /\ ret' = Some(Calc("_cluster_row_words", <<call.words, call.gap_threshold>>))
    /\ UNCHANGED <<call, frame, parseVars>>

SpecCluster == ClusterInit /\ [][ClusterRun]_vars

\* the index of the cluster that holds position k of the flattened clusters
ClusterOf(clusters, k) == CHOOSE c \in 1..Len(clusters) : Len(Flatten(SubSeq(clusters, 1, c - 1))) < k /\ k <= Len(Flatten(SubSeq(clusters, 1, c)))

\* C1: the clusters are non-empty runs of the words in x0 order that together
\* hold every word once, and neighbours in x0 order share a cluster exactly
\* when the next word's x0 minus the previous word's x1 is <= the threshold.
ClusterPartition ==
    (call.fn = "_cluster_row_words" /\ ret # None) =>
        LET clusters == ret[1]
            in_order == SortByX0(call.words)
        IN /\ \A c \in 1..Len(clusters) : clusters[c] # <<>>
           /\ Flatten(clusters) = in_order
           /\ \A k \in 1..(Len(in_order) - 1) :
                 (ClusterOf(clusters, k) = ClusterOf(clusters, k + 1)) = RLe(RSub(in_order[k + 1].x0, in_order[k].x1), call.gap_threshold)

\* a row was clustered that has a gap equal to the threshold and a larger one
ClusterBoundarySeen ==
    /\ call.fn = "_cluster_row_words" /\ ret # None /\ Len(ret[1]) = 2 /\ Len(call.words) = 3
    /\ \E k \in 1..2 : RSub(SortByX0(call.words)[k + 1].x0, SortByX0(call.words)[k].x1) = call.gap_threshold

\* the largest x1 among the words in x0 order from position i to position k
RightmostEdge(in_order, i, k) == RMaxOf([j \in 1..(k - i + 1) |-> in_order[i + j - 1].x1])

\* the position in x0 order of the first word of the cluster that holds
\* position k
ClusterStart(clusters, k) == Len(Flatten(SubSeq(clusters, 1, ClusterOf(clusters, k) - 1))) + 1

\* C19: a word joins the current cluster exactly when its x0 minus the
\* largest x1 of the words already in the cluster is <= the threshold, also
\* when an earlier word of the cluster reaches further right than the last.
ClusterGapFromRightmostEdge ==
    (call.fn = "_cluster_row_words" /\ ret # None) =>
        LET clusters == ret[1]
            in_order == SortByX0(call.words)
        IN /\ Flatten(clusters) = in_order
           /\ \A k \in 1..(Len(in_order) - 1) :
                 (ClusterOf(clusters, k) = ClusterOf(clusters, k + 1))
                     = RLe(RSub(in_order[k + 1].x0, RightmostEdge(in_order, ClusterStart(clusters, k), k)), call.gap_threshold)

\* ------------------------------------------------------------------------
\* The columns of a section from its header words and data row (SpecColumns)
\* ------------------------------------------------------------------------

\* the boxes <<x0, x1>> of a section's header words (on the line at top 350)
ColumnHeaderBoxes == {<<10, 20>>, <<40, 50>>, <<100, 110>>}

\* the boxes of the numbers of a data row (top 380): under the header words,
\* between them, and pairs closer than the cluster gap of 4
ColumnDataBoxes == {<<10, 20>>, <<22, 30>>, <<41, 50>>, <<60, 70>>, <<100, 104>>, <<106, 110>>}

\* the boxes of a set from left to right
BoxSeq(S) == CHOOSE q \in [1..Cardinality(S) -> S] : \A i, j \in 1..Cardinality(S) : i < j => q[i][1] < q[j][1]

ColumnHeaderWords == {[k \in 1..Cardinality(S) |-> Word(<<"H">> \o IntToText(k), Q(BoxSeq(S)[k][1]), Q(BoxSeq(S)[k][2]), Q(350), Q(358), 0)] : S \in SUBSET ColumnHeaderBoxes}

ColumnDataRows == {[k \in 1..Cardinality(S) |-> Word(T_Amount, Q(BoxSeq(S)[k][1]), Q(BoxSeq(S)[k][2]), Q(380), Q(388), 0)] : S \in {S \in SUBSET ColumnDataBoxes : Cardinality(S) >= 2 /\ Cardinality(S) <= MaxColumnWords}}

ColumnsInit ==
    /\ \E hw \in ColumnHeaderWords, row \in ColumnDataRows : call = [fn |-> "columns", header_words |-> hw, data_groups |-> <<row>>, name |-> S_SectionA]
    /\ frame = None /\ ret = None
    /\ ParseIdle

\* clusters, header_groups and columns of a section with data rows
ColumnsRun ==
    /\ call.fn = "columns" /\ ret = None
    /\ ret' = Some([clusters |-> Calc("_cluster_row_words", <<Flatten(call.data_groups), Q(4)>>),
                    header_groups |-> Calc("_group_header_columns", <<call.header_words, Q(24)>>),
                    columns |-> Calc("SectionColumns", <<call.data_groups, call.header_words, Some(call.name)>>)])
    /\ UNCHANGED <<call, frame, parseVars>>

SpecColumns == ColumnsInit /\ [][ColumnsRun]_vars

\* the raw extents <<min x0, max x1>> the columns were built from: those of
\* the header groups, or of the clusters when there is no header group
RawExtents(r) ==
    IF r.header_groups = <<>>
    THEN [c \in 1..Len(r.clusters) |-> <<RMinOf(X0s(r.clusters[c])), RMaxOf(X1s(r.clusters[c]))>>]
    ELSE [g \in 1..Len(r.header_groups) |-> <<r.header_groups[g].min_x, r.header_groups[g].max_x>>]

\* C12: every column set is well formed: left <= right in each column,
\* neighbours do not overlap and are at most the two trim margins (5 each)
\* apart, and the outer edges lie 5 outside the raw extent of the first and
\* of the last column.
ColumnsWellFormed ==
    (call.fn = "columns" /\ ret # None /\ ret[1].columns # <<>>) =>
        LET columns == ret[1].columns
            n == Len(columns)
        IN /\ \A i \in 1..n : RLe(columns[i].left, columns[i].right)
           /\ \A i \in 1..(n - 1) :
                 /\ RLe(columns[i].right, columns[i + 1].left)
                 /\ RLe(RSub(columns[i + 1].left, columns[i].right), Q(10))
           /\ columns[1].left = RSub(RawExtents(ret[1])[1][1], Q(5))
           /\ columns[n].right = RAdd(RawExtents(ret[1])[n][2], Q(5))

\* C13: a column built from a header group that has a data cluster at its
\* index contains the cluster: left <= the cluster's min x0 and right >= its
\* max x1.
ColumnCoversCluster ==
    (call.fn = "columns" /\ ret # None /\ ret[1].header_groups # <<>>) =>
        \A idx \in 1..Len(ret[1].columns) :
            idx <= Len(ret[1].clusters) =>
                /\ RLe(ret[1].columns[idx].left, RMinOf(X0s(ret[1].clusters[idx])))
                /\ RLe(RMaxOf(X1s(ret[1].clusters[idx])), ret[1].columns[idx].right)

\* ------------------------------------------------------------------------
\* _extract_header on its own (SpecHeader)
\* ------------------------------------------------------------------------

\* the positions in HeadingBlock of the status words, the PAN words, the name
\* line, the folio, the address line and the mobile number
HeadingLines == <<{1, 2, 3}, {4, 5, 6}, {7, 8, 9, 10, 11, 12}, {13}, {14}, {15}>>

\* page 0 with any of the heading lines left out
HeaderPages == {Select(HeadingBlock, UNION {HeadingLines[g] : g \in S}) : S \in SUBSET (1..Len(HeadingLines))}

\* title and period on lines that end with a carriage return and a form
\* feed, the period followed by a no-break space
HeadingTextReturns == SubSeq(HeadingText, 1, 22) \o <<"\r">> \o S_ForThePeriod \o <<" ", "2", "0", "2", "4", "U+00A0", "\f">>

\* no text (extract_text() gave None), the title line alone, title and period
HeaderTexts == {<<>>, SubSeq(HeadingText, 1, 22), HeadingText, HeadingTextReturns}

HeaderInit ==
    /\ \E raw \in HeaderPages, text \in HeaderTexts : call = [fn |-> "_extract_header", words |-> Calc("PageWords", <<Page(raw, text), 0>>), page_text |-> text]
    /\ frame = None /\ ret = None
    /\ ParseIdle

HeaderRun ==
    /\ call.fn = "_extract_header" /\ ret = None
    /\ ret' = Some(Calc("_extract_header", <<call.words, call.page_text>>))
    /\ UNCHANGED <<call, frame, parseVars>>

SpecHeader == HeaderInit /\ [][HeaderRun]_vars

HeaderKeys == {"statement_period", "status", "pan", "folio", "name", "mobile", "address"}

\* C16: _extract_header returns a mapping with exactly the seven header
\* keys, and a field without a matching line or token is the empty string
\* (the empty list for address).
HeaderBestEffort ==
    (call.fn = "_extract_header" /\ ret # None) =>
        LET h == ret[1]
            words == call.words
            lines == SplitLines(call.page_text)
        IN /\ DOMAIN h = HeaderKeys
           /\ (\A i \in 1..Len(lines) : ~Contains(lines[i], S_ForThePeriod)) => h.statement_period = <<>>
           /\ (\A k \in 1..Len(words) : ~(RLe(Q(55), words[k].top) /\ RLe(words[k].top, Q(70)))) => h.status = <<>>
           /\ (\A k \in 1..Len(words) : ~(Len(words[k].text) = 10 /\ IsAlnum(words[k].text) /\ RLt(words[k].top, Q(120)))) => h.pan = <<>>
           /\ (\A k \in 1..Len(words) : ~(IsDigit(words[k].text) /\ Len(words[k].text) >= 8 /\ RLt(words[k].top, Q(120)))) => h.folio = <<>>
           /\ (\A k \in 1..Len(words) : ~(RLe(Q(85), words[k].top) /\ RLe(words[k].top, Q(100)))) => h.name = <<>>
           /\ (\A k \in 1..Len(words) : ~(IsDigit(words[k].text) /\ Len(words[k].text) = 10 /\ RLe(Q(150), words[k].top) /\ RLe(words[k].top, Q(170)))) => h.mobile = <<>>
           /\ (\A k \in 1..Len(words) : ~(RLe(Q(100), words[k].top) /\ RLe(words[k].top, Q(160)) /\ ~Contains(words[k].text, <<":">>))) => h.address = <<>>

\* a header was extracted from a page without text that has a name line and
\* an address line but neither status, PAN, folio nor mobile number
HeaderPartlyMissing ==
    /\ call.fn = "_extract_header" /\ ret # None /\ call.page_text = <<>>
    /\ ret[1].name # <<>> /\ ret[1].address # <<>>
    /\ ret[1].statement_period = <<>> /\ ret[1].status = <<>> /\ ret[1].pan = <<>> /\ ret[1].folio = <<>> /\ ret[1].mobile = <<>>

\* ------------------------------------------------------------------------
\* _detect_sections on its own (SpecDetect)
\* ------------------------------------------------------------------------

\* the labels a page is made of, <<letter, center, top>>: the scenario of
\* centers 100, 400, 700; labels close to the page edges; a label that names
\* no known section; a label under the label band
LabelChoices ==
    {<<"A", 100, 320>>, <<"B", 400, 320>>, <<"C", 700, 320>>, <<"A", 30, 320>>, <<"C", 50, 320>>,
     <<"C", 970, 320>>, <<"B", 990, 320>>, <<"X", 400, 320>>, <<"A", 400, 600>>}

RECURSIVE LabelPage(_)
LabelPage(labels) == IF labels = <<>> THEN <<>> ELSE LabelWords(<<Head(labels)[1]>>, Head(labels)[2], Head(labels)[3]) \o LabelPage(Tail(labels))

\* pages of a label "Section A :" followed by nothing or by a header word on
\* the line at 350, and then by a word at top t, left or right of the label,
\* or by a second label on the line at t
LabelTailPages ==
    {LabelWords(<<"A">>, 100, 320) \o between \o tail :
        between \in {<<>>, <<RawWord(<<"H", "1">>, 100, 110, 350)>>},
        tail \in {<<RawWord(T_Fund, x, x + 10, t)>> : x \in {20, 130}, t \in {320, 325, 326, 350}}
                 \cup {LabelWords(<<"B">>, 400, t) : t \in {320, 324, 325, 326, 350}}}

DetectInit ==
    /\ \E raw \in {LabelPage(labels) : labels \in SeqsUpTo(LabelChoices, MaxLabels)} \cup LabelTailPages :
          call = [fn |-> "_detect_sections", words |-> Calc("PageWords", <<Page(raw, <<>>), 0>>)]
    /\ frame = None /\ ret = None
    /\ ParseIdle

DetectRun ==
    /\ call.fn = "_detect_sections" /\ ret = None
    /\ ret' = Some(Calc("_detect_sections", <<call.words>>))
    /\ UNCHANGED <<call, frame, parseVars>>

SpecDetect == DetectInit /\ [][DetectRun]_vars

\* (a + b) / 2
Mid(a, b) == RDiv(RAdd(a, b), 2)

\* C7: for the detected labels in ascending order of center there is one
\* boundary per label, in that order, with left = max(0, mid(c(i-1), ci) - 40)
\* (0 for the first) and right = min(1000, mid(ci, c(i+1)) + 40) (1000 for the
\* last), hence within [0, 1000]; centers 100, 400, 700 give [0,290],
\* [210,590], [510,1000].
BoundariesFromCenters ==
    (call.fn = "_detect_sections" /\ ret # None) =>
        LET c == SortByCenter(Labels(call.words))
            b == ret[1]
        IN /\ Len(b) = Len(c)
           /\ \A i \in 1..Len(c) :
                 /\ b[i].name = c[i][2]
                 /\ b[i].left = (IF i = 1 THEN Q(0) ELSE RMax(Q(0), RSub(Mid(c[i - 1][1], c[i][1]), Q(40))))
                 /\ b[i].right = (IF i = Len(c) THEN Q(1000) ELSE RMin(Q(1000), RAdd(Mid(c[i][1], c[i + 1][1]), Q(40))))
                 /\ RLe(Q(0), b[i].left) /\ RLe(b[i].right, Q(1000))
           /\ [i \in 1..Len(c) |-> c[i][1]] = <<Q(100), Q(400), Q(700)>> =>
                 [i \in 1..Len(b) |-> <<b[i].left, b[i].right>>] = <<<<Q(0), Q(290)>>, <<Q(210), Q(590)>>, <<Q(510), Q(1000)>>>>

\* the boundaries of labels at 100, 400 and 700 were computed
BoundariesScenarioSeen ==
    /\ call.fn = "_detect_sections" /\ ret # None /\ Len(ret[1]) = 3
    /\ [i \in 1..3 |-> SortByCenter(Labels(call.words))[i][1]] = <<Q(100), Q(400), Q(700)>>

\* word j is on the line of word i
SameLine(words, i, j) == RLe(RAbs(RSub(words[j].top, words[i].top)), Q(5))

\* the indices of the contiguous run of words after the "Section" word i that
\* lie on its line: the run ends before the next "Section" word and before
\* the first word on another line
LabelRun(words, i) ==
    LET ends == {j \in (i + 1)..Len(words) : words[j].text = S_Section \/ ~SameLine(words, i, j)}
        stop == IF ends = {} THEN Len(words) + 1 ELSE CHOOSE j \in ends : \A k \in ends : j <= k
    IN [k \in 1..(stop - 1 - i) |-> i + k]

\* <<center, name>> of the labels made of a "Section" word of the label band
\* and its run, for the labels of a known section
RunLabels(words) ==
    LET sw == SectionWordIndices(words)
        seq(i) == Pick(words, <<i>> \o LabelRun(words, i))
        all == [k \in 1..Len(sw) |-> <<RMean(Centers(seq(sw[k]))), Strip(JoinSpace([m \in 1..Len(seq(sw[k])) |-> SortByX0(seq(sw[k]))[m].text]))>>]
    IN Select(all, {k \in 1..Len(all) : IsKnownLabel(all[k][2])})

\* C22: the boundaries returned are those of the labels formed from each
\* "Section" word with top in 200..520 and the contiguous run of words after
\* it on its line (ended by the next "Section" word or the first word on
\* another line), for the labels starting with "Section A :", "Section B :"
\* or "Section C :".
LabelsAreContiguousRuns ==
    (call.fn = "_detect_sections" /\ ret # None) => ret[1] = Boundaries(SortByCenter(RunLabels(call.words)))

\* ------------------------------------------------------------------------
\* _parse_detail_sections on its own, one boundary at a time (SpecSections)
\* ------------------------------------------------------------------------

\* pages of one section: a label, up to MaxHeaderCols header words and a
\* line of 0, 1 or 2 numbers (a data row needs two), with or without total row
OneSectionPages ==
    {SectionBlocks(<<Sec(<<letter>>, ncols, ndata, total)>>, 10) :
        letter \in {"A", "B", "C"}, ncols \in 0..MaxHeaderCols, ndata \in 0..2, total \in BOOLEAN}

\* pages of sections A and C, each with or without data row and total row
TwoSectionPages ==
    {SectionBlocks(<<Sec(<<"A">>, 2, da, ta), Sec(<<"C">>, 2, dc, tc)>>, 10) :
        da \in {0, 2}, ta \in BOOLEAN, dc \in {1, 2}, tc \in BOOLEAN}

\* pages of a section A whose header line lies at top h, at or just above
\* the cutoff 372 or well above it, and whose data line lies at top d below it
CutoffPages ==
    {LabelWords(<<"A">>, 40, 320)
       \o <<RawWord(<<"H", "1">>, 10, 20, h), RawWord(<<"H", "2">>, 40, 50, h)>>
       \o <<RawWord(T_One, 10, 18, d), RawWord(T_Amount, 40, 48, d)>> :
        h \in {350, 371, 372}, d \in {373, 374, 375, 380}}

\* a candidate line at "top": two numbers; a rupee amount and a number; a
\* word and one number; a total with its sum; a total with two numbers; none
RowLine(kind, top) ==
    CASE kind = "data" -> <<RawWord(T_One, 10, 18, top), RawWord(T_Amount, 40, 48, top)>>
      [] kind = "rupee" -> <<RawWord(T_RupeeOne, 10, 18, top), RawWord(T_Amount, 40, 48, top)>>
      [] kind = "one" -> <<RawWord(T_Fund, 10, 18, top), RawWord(T_Amount, 40, 48, top)>>
      [] kind = "total" -> <<RawWord(S_Total, 10, 20, top), RawWord(T_Sum, 40, 48, top)>>
      [] kind = "totalnums" -> <<RawWord(S_Total, 10, 20, top), RawWord(T_Amount, 40, 46, top), RawWord(T_One, 48, 52, top)>>
      [] OTHER -> <<>>

RowKinds == {"data", "rupee", "one", "total", "totalnums", "none"}

\* pages of a section A with two header words and two candidate lines of any
\* kind below them
RowKindPages ==
    {LabelWords(<<"A">>, 40, 320)
       \o <<RawWord(<<"H", "1">>, 10, 20, 350), RawWord(<<"H", "2">>, 40, 50, 350)>>
       \o RowLine(k1, 380) \o RowLine(k2, 390) : k1 \in RowKinds, k2 \in RowKinds}

\* pages of sections A and C laid out from x = 10 and from x = c, nearer to
\* each other than the margin of the boundaries or not
CloseSectionPages ==
    {SectionBlock(Sec(<<"A">>, 2, 2, ta), 10) \o SectionBlock(Sec(<<"C">>, 2, 2, tc), c) : c \in {110, 150, 190}, ta \in BOOLEAN, tc \in BOOLEAN}

SectionsInit ==
    /\ \E raw \in OneSectionPages \cup TwoSectionPages \cup CutoffPages \cup RowKindPages \cup CloseSectionPages : call = [fn |-> "_parse_detail_sections", words |-> Calc("PageWords", <<Page(raw, <<>>), 0>>)]
    /\ frame = None /\ ret = None
    /\ ParseIdle

\* section_tables = {}, cells = [], section_boundaries = _detect_sections(words)
DetailEnter ==
    /\ call.fn = "_parse_detail_sections" /\ frame = None /\ ret = None
    /\ frame' = Some([section_boundaries |-> Calc("_detect_sections", <<call.words>>), idx |-> 0,
                      acc |-> [raised |-> FALSE, section_tables |-> EmptyDict, cells |-> <<>>]])
    /\ UNCHANGED <<call, ret, parseVars>>

\* one iteration of "for boundary in section_boundaries"
DetailIterate ==
    /\ call.fn = "_parse_detail_sections" /\ frame # None /\ ret = None
    /\ ~frame[1].acc.raised /\ frame[1].idx < Len(frame[1].section_boundaries)
    /\ frame' = Some([frame[1] EXCEPT !.idx = @ + 1, !.acc = Calc("SectionStep", <<@, call.words, frame[1].section_boundaries[frame[1].idx + 1]>>)])
    /\ UNCHANGED <<call, ret, parseVars>>

\* return section_tables, cells
DetailReturn ==
    /\ call.fn = "_parse_detail_sections" /\ frame # None /\ ret = None
    /\ ~frame[1].acc.raised /\ frame[1].idx = Len(frame[1].section_boundaries)
    /\ ret' = Some(frame[1].acc)
    /\ UNCHANGED <<call, frame, parseVars>>

\* the ValueError of the column assignment leaves the function
DetailRaise ==
    /\ call.fn = "_parse_detail_sections" /\ frame # None /\ ret = None
    /\ frame[1].acc.raised
    /\ ret' = Some([raised |-> TRUE])
    /\ UNCHANGED <<call, frame, parseVars>>

SectionsNext == DetailEnter \/ DetailIterate \/ DetailReturn \/ DetailRaise

SpecSections == SectionsInit /\ [][SectionsNext]_vars

\* the schema of a section name: its canonical names, None for other names
Schema(name) ==
    IF StartsWith(name, S_SectionA) THEN Some(CanonicalA)
    ELSE IF StartsWith(name, S_SectionB) THEN Some(CanonicalB)
    ELSE IF StartsWith(name, S_SectionC) THEN Some(CanonicalC)
    ELSE None

\* the header names extracted for the section of a boundary
ExtractedNames(words, boundary) ==
    LET sg == SectionGroups(words, boundary)
        columns == SectionColumns(sg.data_groups, sg.header_words, Some(boundary.name))
    IN [c \in 1..Len(columns) |-> columns[c].name]

\* the boundaries the loop has gone through
Processed == IF frame = None THEN <<>> ELSE SubSeq(frame[1].section_boundaries, 1, frame[1].idx)

\* C2: the table of a section A / B / C with data rows is produced whatever
\* the number of extracted columns, and it carries the canonical names if that
\* number is 10 / 9 / 6 and the extracted header names otherwise.
CanonicalIffExactCount ==
    (call.fn = "_parse_detail_sections" /\ frame # None) =>
        \A i \in 1..Len(Processed) :
            LET b == Processed[i]
                names == ExtractedNames(call.words, b)
            IN SectionGroups(call.words, b).data_groups # <<>> =>
                  /\ ~frame[1].acc.raised
                  /\ b.name \in DOMAIN frame[1].acc.section_tables
                  /\ frame[1].acc.section_tables[b.name].columns = (IF Len(names) = Len(Schema(b.name)[1]) THEN Schema(b.name)[1] ELSE names)

\* C6: a section without a line classified as data row does not raise, gets
\* no table and no cell, and the sections after it are parsed as usual.
SectionWithoutDataSkipped ==
    (call.fn = "_parse_detail_sections" /\ frame # None) =>
        \A i \in 1..Len(Processed) :
              IF SectionGroups(call.words, Processed[i]).data_groups = <<>>
              THEN /\ Processed[i].name \notin DOMAIN frame[1].acc.section_tables
                   /\ \A k \in 1..Len(frame[1].acc.cells) : frame[1].acc.cells[k].section # Some(Processed[i].name)
                   /\ i = Len(Processed) => ~frame[1].acc.raised
              ELSE frame[1].acc.raised \/ Processed[i].name \in DOMAIN frame[1].acc.section_tables

\* section A of a page had a header line and a total row but no data row, and
\* section C after it was parsed into a table
SectionWithoutDataSeen ==
    /\ call.fn = "_parse_detail_sections" /\ frame # None /\ Len(Processed) = 2
    /\ SectionGroups(call.words, Processed[1]).data_groups = <<>>
    /\ SectionGroups(call.words, Processed[1]).total_groups # <<>>
    /\ SectionGroups(call.words, Processed[1]).header_words # <<>>
    /\ DOMAIN frame[1].acc.section_tables = {Processed[2].name}

\* the table of a boundary's section built from the extracted names: one row
\* per data group, then one per total group
ExtractedTable(words, boundary) ==
    LET sg == SectionGroups(words, boundary)
        columns == SectionColumns(sg.data_groups, sg.header_words, Some(boundary.name))
        groups == sg.data_groups \o sg.total_groups
    IN DataFrame([g \in 1..Len(groups) |-> RowMap(groups[g], columns)], [c \in 1..Len(columns) |-> columns[c].name])

\* C11: the canonical override changes column names only: a stored section
\* table has the rows of the table built from the extracted names (as many
\* rows, data rows then total rows, the same value at every row and column
\* position), and its names are the extracted or the canonical ones.
CanonicalOverrideKeepsRows ==
    (call.fn = "_parse_detail_sections" /\ frame # None) =>
        \A i \in 1..Len(Processed) :
            Processed[i].name \in DOMAIN frame[1].acc.section_tables =>
                LET stored == frame[1].acc.section_tables[Processed[i].name]
                    built == ExtractedTable(call.words, Processed[i])
                    sg == SectionGroups(call.words, Processed[i])
                IN /\ stored.rows = built.rows
                   /\ Len(stored.rows) = Len(sg.data_groups) + Len(sg.total_groups)
                   /\ Len(stored.columns) = Len(built.columns)
                   /\ stored.columns # built.columns => stored.columns = Schema(Processed[i].name)[1]

\* a section C with six header columns, two values in its data row and a
\* total row was stored under the canonical names, which are not the names
\* that were extracted
CanonicalOverrideSeen ==
    /\ call.fn = "_parse_detail_sections" /\ frame # None /\ Len(Processed) = 1
    /\ Processed[1].name \in DOMAIN frame[1].acc.section_tables
    /\ frame[1].acc.section_tables[Processed[1].name].columns = CanonicalC
    /\ ExtractedTable(call.words, Processed[1]).columns # CanonicalC
    /\ Len(frame[1].acc.section_tables[Processed[1].name].rows) = 2
    /\ \E j \in 1..6 : frame[1].acc.section_tables[Processed[1].name].rows[1][j] # <<>>

\* the line groups of a boundary's section words
SectionLines(words, boundary) == _group_words_by_line(SectionWords(words, boundary), Half(3))

\* line group g of "lines" is among the header candidates or among the data
\* candidates taken from "lines"
LineKept(lines, g, header_candidates) ==
    \/ \E h \in 1..Len(header_candidates) : header_candidates[h] = lines[g]
    \/ \E d \in 1..Len(DataCandidates(lines, HeaderMaxTop(header_candidates))) : DataCandidates(lines, HeaderMaxTop(header_candidates))[d] = lines[g]

AllLinesKept(lines) == \A g \in 1..Len(lines) : LineKept(lines, g, HeaderCandidates(lines))

\* C20: every line group of the words of a section that has been gone
\* through is a header line (top <= 372) or a candidate data line: no line
\* is dropped by the split.
SplitDropsNoLine ==
    (call.fn = "_parse_detail_sections" /\ frame # None) =>
        \A i \in 1..Len(Processed) : AllLinesKept(SectionLines(call.words, Processed[i]))

\* a leading digit followed only by digits, commas, periods, slashes or hyphens
LeadingDigitToken(text) == text # <<>> /\ text[1] \in Digits /\ \A i \in 2..Len(text) : text[i] \in Digits \cup {",", ".", "/", "-"}

\* the same of the text without surrounding white space and rupee signs
CleanedDigitToken(text) == LeadingDigitToken(Select(Strip(text), {i \in 1..Len(Strip(text)) : Strip(text)[i] # "U+20B9"}))

\* one of the tokens of the line starts with "Total"
TotalLine(group) == \E k \in 1..Len(group) : StartsWith(Strip(group[k].text), S_Total)

\* the candidate lines (lines below the header) of a boundary, without their tops
CandidateLines(lines) == GroupsOf(DataCandidates(lines, HeaderMaxTop(HeaderCandidates(lines))), 1..Len(lines))

\* the candidate lines that are no total line and have two or more numeric
\* tokens, with "strict" numeric as the leading-digit pattern says
DataLinesOf(cands, strict) ==
    Select(cands, {g \in 1..Len(cands) :
        /\ ~TotalLine(cands[g])
        /\ Cardinality({k \in 1..Len(cands[g]) : IF strict THEN LeadingDigitToken(cands[g][k].text) ELSE CleanedDigitToken(cands[g][k].text)}) >= 2})

TotalLinesOf(cands) == Select(cands, {g \in 1..Len(cands) : TotalLine(cands[g])})

\* the cells recorded for a section name
CellsOfSection(cells, name) == Select(cells, {k \in 1..Len(cells) : cells[k].section = Some(name)})

\* the table and the cells of a section are those of its data lines followed
\* by its total lines, cut into the columns; without data line there is
\* neither table nor cell
RowsFromLines(acc, name, data, total, columns) ==
    IF data = <<>>
    THEN name \notin DOMAIN acc.section_tables /\ CellsOfSection(acc.cells, name) = <<>>
    ELSE /\ name \in DOMAIN acc.section_tables
         /\ acc.section_tables[name].rows = DataFrame([g \in 1..Len(data \o total) |-> RowMap((data \o total)[g], columns)], [c \in 1..Len(columns) |-> columns[c].name]).rows
         /\ CellsOfSection(acc.cells, name) = Flatten([g \in 1..Len(data \o total) |-> RowCells((data \o total)[g], columns, Some(name))])

RowsClassifiedIn(acc, words, boundary, cands, strict) ==
    /\ \A g \in 1..Len(cands) : ~(\E d \in 1..Len(DataLinesOf(cands, strict)) : DataLinesOf(cands, strict)[d] = cands[g]) \/ ~TotalLine(cands[g])
    /\ RowsFromLines(acc, boundary.name, DataLinesOf(cands, strict), TotalLinesOf(cands),
                     SectionColumns(DataLinesOf(cands, strict), SectionGroups(words, boundary).header_words, Some(boundary.name)))

RowsClassified(strict) ==
    (call.fn = "_parse_detail_sections" /\ frame # None /\ ~frame[1].acc.raised) =>
        \A i \in 1..Len(Processed) :
            RowsClassifiedIn(frame[1].acc, call.words, Processed[i], CandidateLines(SectionLines(call.words, Processed[i])), strict)

\* C21 as stated: a candidate line is a total row iff a token starts with
\* "Total", else a data row iff two or more of its tokens are a leading digit
\* followed only by digits, commas, periods, slashes or hyphens; a line that
\* is neither gives no row and no cell; the table has the data rows, then
\* the total rows.
RowsClassifiedByLeadingDigit == RowsClassified(TRUE)

\* C21: the same with a token numeric when, without surrounding white space
\* and without rupee signs, it is a leading digit followed only by digits,
\* commas, periods, slashes or hyphens.
RowsClassifiedByCleanedToken == RowsClassified(FALSE)

\* a section whose first candidate line has "Total" and two numbers and whose
\* second is a data line was stored with the data row first
TotalAboveDataSeen ==
    /\ call.fn = "_parse_detail_sections" /\ frame # None /\ Len(Processed) = 1
    /\ Len(CandidateLines(SectionLines(call.words, Processed[1]))) = 2
    /\ Len(CandidateLines(SectionLines(call.words, Processed[1]))[1]) = 3
    /\ TotalLine(CandidateLines(SectionLines(call.words, Processed[1]))[1])
    /\ Processed[1].name \in DOMAIN frame[1].acc.section_tables
    /\ Len(frame[1].acc.section_tables[Processed[1].name].rows) = 2
    /\ frame[1].acc.section_tables[Processed[1].name].rows[1][1] = T_One
    /\ frame[1].acc.section_tables[Processed[1].name].rows[2][1] = S_Total

\* ------------------------------------------------------------------------
\* One task per page and a fan-in merge in page order (ParSpec)
\* ------------------------------------------------------------------------

\* the result of the pages merged so far with the result r of the next page:
\* an exception of a page is the exception of the parse; the header is that of
\* the first page; frames and cells are appended; the tables of a section are
\* concatenated (the Page column is already in them)
MergePage(m, r, pg) ==
    IF m.raised THEN m
    ELSE IF r.raised THEN [m EXCEPT !.raised = TRUE]
    ELSE LET merged == Calc("MergeSections", <<m.acc.section_tables, r.acc.section_tables, DOMAIN r.acc.section_tables, pg, FALSE>>)
         IN IF merged.raised THEN [m EXCEPT !.raised = TRUE]
            ELSE [raised |-> FALSE,
                  acc |-> [header |-> IF m.acc.header = None THEN r.acc.header ELSE m.acc.header,
                           summary_frames |-> m.acc.summary_frames \o r.acc.summary_frames,
                           section_tables |-> merged.tables,
                           all_cells |-> m.acc.all_cells \o r.acc.all_cells]]

\* the merge of the results of pages 1..n in page order
RECURSIVE MergePages(_, _)
MergePages(results, n) ==
    IF n = 0 THEN [raised |-> FALSE, acc |-> FreshAccumulators]
    ELSE MergePage(MergePages(results, n - 1), results[n][1], n - 1)

ParStart ==
    /\ pc = "idle"
    /\ IF NoPages(pdf)
       THEN pc' = "raised" /\ UNCHANGED <<multi_page, page_results>>
       ELSE pc' = "tasks" /\ multi_page' = (Len(pdf) > 1) /\ page_results' = [p \in 1..Len(pdf) |-> None]
    /\ UNCHANGED <<callVars, files, pdf_path, pdf, page_index, header, summary_frames, section_tables, all_cells, statement, fresh, issues, csv_rows, csv_files, runs, prev>>

\* the task of page p: the body of the page loop on lists of its own
ParTask(p) ==
    /\ pc = "tasks" /\ page_results[p] = None
    /\ page_results' = [page_results EXCEPT ![p] = Some(Calc("ProcessPage", <<FreshAccumulators, pdf[p], p - 1, multi_page>>))]
    /\ UNCHANGED <<callVars, files, pdf_path, pdf, pc, page_index, multi_page, header, summary_frames, section_tables, all_cells, statement, fresh, issues, csv_rows, csv_files, runs, prev>>

\* the outcome of the merged result m = [raised, acc]
ParOutcome(m) ==
    IF m.raised
    THEN pc' = "raised" /\ UNCHANGED statement
    ELSE pc' = "returned" /\ statement' = Some(CapitalGainStatement(m.acc))

\* fan-in: every task is done, the results are merged in page order
ParMerge ==
    /\ pc = "tasks" /\ \A p \in 1..Len(pdf) : page_results[p] # None
    /\ ParOutcome(MergePages(page_results, Len(pdf)))
    /\ UNCHANGED <<callVars, files, pdf_path, pdf, page_index, multi_page, header, summary_frames, section_tables, all_cells, fresh, issues, csv_rows, csv_files, runs, prev, page_results>>

\* the tasks run in any order
ParSomeTask == \E p \in 1..Len(pdf) : ParTask(p)

ParNext == ParStart \/ ParSomeTask \/ ParMerge

ParSpec == Init /\ [][ParNext]_vars

\* the page loop of parse_capital_gain_statement on pages 1..n of doc
RECURSIVE SequentialPages(_, _)
SequentialPages(doc, n) ==
    IF n = 0 THEN [raised |-> FALSE, acc |-> FreshAccumulators]
    ELSE LET before == SequentialPages(doc, n - 1)
         IN IF before.raised THEN before ELSE ProcessPage(before.acc, doc[n], n - 1, Len(doc) > 1)

\* C9: whatever the order of the page tasks, the merge of their results in
\* page order ends as the sequential page loop does: it raises when the loop
\* raises, and else returns the statement the loop returns.
ParallelSameAsSequential ==
    (pc \in {"returned", "raised"}) =>
        LET seq == SequentialPages(pdf, Len(pdf))
        IN /\ (pc = "raised") = (NoPages(pdf) \/ seq.raised)
           /\ pc = "returned" => statement = Some(CapitalGainStatement(seq.acc))

\* the task of the second page of a document has recorded cells before the
\* task of the first page has run
ParallelOutOfOrderSeen ==
    /\ pc = "tasks" /\ Len(pdf) = 2 /\ page_results[1] = None /\ page_results[2] # None
    /\ ~page_results[2][1].raised /\ page_results[2][1].acc.all_cells # <<>>

\* the words of the detail band: top in 330..420 and center in 0..1000
DetailBandWords(words) ==
    {k \in 1..Len(words) : RLe(Q(330), words[k].top) /\ RLe(words[k].top, Q(420)) /\ RLe(Q(0), Center(words[k])) /\ RLe(Center(words[k]), Q(1000))}

\* the boundaries whose section the word is in the cells of
SectionsHolding(cells, boundaries, word) ==
    {b \in 1..Len(boundaries) : \E c \in 1..Len(cells) : cells[c].section = Some(boundaries[b].name) /\ \E w \in 1..Len(cells[c].words) : cells[c].words[w] = word}

\* C27: when two or more sections are detected on a page, every word of the
\* detail band (top in 330..420, center in 0..1000) is selected for exactly
\* one section, and no word is extracted into the cells of two different
\* sections.
WordInExactlyOneSection ==
    (call.fn = "_parse_detail_sections" /\ frame # None /\ Len(frame[1].section_boundaries) >= 2) =>
        \A k \in DetailBandWords(call.words) :
            /\ Cardinality({b \in 1..Len(frame[1].section_boundaries) : \E j \in 1..Len(SectionWords(call.words, frame[1].section_boundaries[b])) : SectionWords(call.words, frame[1].section_boundaries[b])[j] = call.words[k]}) = 1
            /\ (ret # None /\ ~ret[1].raised) => Cardinality(SectionsHolding(ret[1].cells, frame[1].section_boundaries, call.words[k])) <= 1

\* the column names of a table
ColumnNames(df) == {df.columns[j] : j \in 1..Len(df.columns)}

\* the cell names a column of the statement's tables
CellHasColumn(self, cell) ==
    IF cell.section = None
    THEN cell.column \in ColumnNames(self.summary_table)
    ELSE cell.section[1] \in DOMAIN self.sections /\ cell.column \in ColumnNames(self.sections[cell.section[1]])

\* C28: in every statement returned by parse_capital_gain_statement each
\* recorded cell refers to a column of the returned tables: a cell with
\* section S has S among the keys of sections and its column among the
\* column names of that table, a cell without section has its column among
\* the column names of summary_table, also after a canonical override.
CellsReferToColumns ==
    statement # None => \A c \in 1..Len(statement[1].cells) : CellHasColumn(statement[1], statement[1].cells[c])

\* token t of a cell appears on its own page of document doc: on the page
\* of index t.page_index a word has its text and lies within 2.5 of its
\* center and 1.5 of its top
TokenAppearsOnPage(t, doc) ==
    /\ t.page_index < Len(doc)
    /\ \E k \in 1..Len(doc[t.page_index + 1].words) :
          LET w == doc[t.page_index + 1].words[k]
          IN /\ w.text = t.text
             /\ RLe(RAbs(RSub(RDiv(RAdd(w.x0, w.x1), 2), RDiv(RAdd(t.x0, t.x1), 2))), Half(5))
             /\ RLe(RAbs(RSub(w.top, t.top)), Half(3))

\* C30: cross_check_against_pdf counts a token as found only when the
\* matching word of the second extraction is on the page of the token: the
\* cells reported are the cells with a token that has no match on its page.
CrossCheckMatchesOnSamePage ==
    issues # None =>
        Len(issues[1]) = Cardinality({c \in 1..Len(StatementCells) : \E t \in 1..Len(StatementCells[c].words) : ~TokenAppearsOnPage(StatementCells[c].words[t], fresh[1])})

\* ------------------------------------------------------------------------
\* _extract_row_cells on the row of a section (SpecRowCells)
\* ------------------------------------------------------------------------

\* the boxes of the words of a row (top 380): single words and words closer
\* than the cluster gap of 4, under and between the header boxes
RowCellBoxes == {<<10, 20>>, <<22, 30>>, <<41, 50>>, <<100, 104>>, <<106, 110>>, <<112, 116>>}

RowCellTexts == {T_One, T_Amount}

\* a row: two to MaxColumnWords words, from left to right
RowCellRows ==
    UNION {{[k \in 1..Cardinality(S) |-> Word(t[k], Q(BoxSeq(S)[k][1]), Q(BoxSeq(S)[k][2]), Q(380), Q(388), 0)] : t \in [1..Cardinality(S) -> RowCellTexts]} :
              S \in {S \in SUBSET RowCellBoxes : Cardinality(S) >= 2 /\ Cardinality(S) <= MaxColumnWords}}

RowCellsInit ==
    /\ \E hw \in ColumnHeaderWords, row \in RowCellRows : call = [fn |-> "_extract_row_cells", header_words |-> hw, row_words |-> row, name |-> S_SectionA]
    /\ frame = None /\ ret = None
    /\ ParseIdle

\* what the section loop keeps of one row: the columns, row_map and the cells
RowCellsResult(columns, extracted) == [columns |-> columns, row_map |-> extracted[1], cells |-> extracted[2]]

RowCellsOf(row_words, columns, section_name) == RowCellsResult(columns, Calc("_extract_row_cells", <<row_words, columns, section_name>>))

\* the columns of a section whose only data row is the row, and its cells
RowCellsRun ==
    /\ call.fn = "_extract_row_cells" /\ ret = None
    /\ ret' = Some(RowCellsOf(call.row_words, Calc("SectionColumns", <<<<call.row_words>>, call.header_words, Some(call.name)>>), Some(call.name)))
    /\ UNCHANGED <<call, frame, parseVars>>

SpecRowCells == RowCellsInit /\ [][RowCellsRun]_vars

\* the row words with center in [left, right] of the column, by ascending x0
WordsInColumn(row_words, column) ==
    LET sorted_words == SortByX0(row_words)
    IN Select(sorted_words, {k \in 1..Len(sorted_words) : RLe(column.left, Center(sorted_words[k])) /\ RLe(Center(sorted_words[k]), column.right)})

\* the texts of the tokens, without a token whose text is that of the token
\* immediately before it, joined by single spaces
JoinedWithoutRepeats(tokens) ==
    JoinSpace(Pick([k \in 1..Len(tokens) |-> tokens[k].text], IndicesIn(Len(tokens), {k \in 1..Len(tokens) : k = 1 \/ tokens[k].text # tokens[k - 1].text})))

\* the cells of the columns with a non-empty joined value, in column order
ExpectedCells(row_words, columns, filled, section_name) ==
    [p \in 1..Len(filled) |->
        ExtractedCell(section_name, columns[filled[p]].name, JoinedWithoutRepeats(WordsInColumn(row_words, columns[filled[p]])), WordsInColumn(row_words, columns[filled[p]]))]

\* C23: _extract_row_cells gives each column the row words whose center
\* lies in [left, right], in ascending x0 order, joined by single spaces with
\* a token skipped when its text is the text of the token immediately before
\* it; it returns exactly one cell for every column whose joined value is
\* non-empty and none for the others, and the words of a cell are exactly the
\* words selected for its column.
CellsAreColumnSelections ==
    (call.fn = "_extract_row_cells" /\ ret # None) =>
        LET columns == ret[1].columns
        IN ret[1].cells = ExpectedCells(call.row_words, columns,
                                        IndicesIn(Len(columns), {i \in 1..Len(columns) : JoinedWithoutRepeats(WordsInColumn(call.row_words, columns[i])) # <<>>}),
                                        Some(call.name))

\* a cell of three words whose second repeats the first, and a column
\* without a cell
RepeatedTokenSkipped ==
    /\ call.fn = "_extract_row_cells" /\ ret # None
    /\ Len(ret[1].cells) < Len(ret[1].columns)
    /\ \E p \in 1..Len(ret[1].cells) :
          /\ Len(ret[1].cells[p].words) = 3
          /\ ret[1].cells[p].words[1].text = T_One /\ ret[1].cells[p].words[2].text = T_One /\ ret[1].cells[p].words[3].text = T_Amount
          /\ ret[1].cells[p].value_text = <<"1", " ", "2", ".", "5">>

\* C26: for a row and the columns of either column builder,
\* _extract_row_cells places each row word in at most one column: no word is
\* among the words of two cells of the row.
WordInAtMostOneColumn ==
    (call.fn = "_extract_row_cells" /\ ret # None) =>
        \A p, q \in 1..Len(ret[1].cells) :
            p # q => \A i \in 1..Len(ret[1].cells[p].words), j \in 1..Len(ret[1].cells[q].words) : ret[1].cells[p].words[i] # ret[1].cells[q].words[j]

\* C29: the row map returned by _extract_row_cells agrees with the returned
\* cells: for every cell, row_map[cell.column] is cell.value_text, also when
\* two columns carry the same name.
RowMapAgreesWithCells ==
    (call.fn = "_extract_row_cells" /\ ret # None) =>
        \A p \in 1..Len(ret[1].cells) :
            /\ ret[1].cells[p].column \in DOMAIN ret[1].row_map
            /\ ret[1].row_map[ret[1].cells[p].column] = ret[1].cells[p].value_text

\* ------------------------------------------------------------------------
\* _build_columns_from_clusters as the summary table calls it
\* (SpecBuildColumns)
\* ------------------------------------------------------------------------

\* the boxes of the words of the summary data row (top 250): two of them
\* closer than the cluster gap of 35
BuildDataBoxes == {<<10, 30>>, <<40, 50>>, <<100, 120>>, <<200, 220>>}

BuildDataRows == {[k \in 1..Cardinality(S) |-> Word(T_Amount, Q(BoxSeq(S)[k][1]), Q(BoxSeq(S)[k][2]), Q(250), Q(258), 0)] : S \in SUBSET BuildDataBoxes \ {{}}}

\* the places <<x0, x1, top>> of the header tokens, on two header lines
BuildHeaderSlots == {<<b[1], b[2], t>> : b \in {<<15, 25>>, <<30, 40>>, <<55, 65>>, <<105, 115>>}, t \in {230, 240}}

\* the slots of a set by (top, x0)
SlotSeq(S) == CHOOSE q \in [1..Cardinality(S) -> S] : \A i, j \in 1..Cardinality(S) : i < j => (q[i][3] < q[j][3] \/ (q[i][3] = q[j][3] /\ q[i][1] < q[j][1]))

\* up to MaxHeaderTokens header tokens "Gain" or "Loss"
BuildHeaderWords ==
    UNION {{[k \in 1..Cardinality(S) |-> Word(t[k], Q(SlotSeq(S)[k][1]), Q(SlotSeq(S)[k][2]), Q(SlotSeq(S)[k][3]), Q(SlotSeq(S)[k][3] + 8), 0)] : t \in [1..Cardinality(S) -> {T_Gain, T_Loss}]} :
              S \in {S \in SUBSET BuildHeaderSlots : Cardinality(S) <= MaxHeaderTokens}}

\* a row of two clusters of three words whose centers average to 268/3 and
\* 404/3, and a header token centered at 112, half way between the two
BuildThirdsRow ==
    <<Word(T_Amount, Q(87), Q(89), Q(250), Q(258), 0), Word(T_Amount, Q(88), Q(90), Q(250), Q(258), 0), Word(T_Amount, Q(90), Q(92), Q(250), Q(258), 0),
      Word(T_Amount, Q(132), Q(134), Q(250), Q(258), 0), Word(T_Amount, Q(134), Q(136), Q(250), Q(258), 0), Word(T_Amount, Q(135), Q(137), Q(250), Q(258), 0)>>

BuildThirdsHeader == <<Word(T_Gain, Q(107), Q(117), Q(230), Q(238), 0)>>

BuildColumnsInit ==
    /\ \/ \E hw \in BuildHeaderWords, row \in BuildDataRows : call = [fn |-> "_build_columns_from_clusters", header_words |-> hw, data_row_words |-> row]
       \/ call = [fn |-> "_build_columns_from_clusters", header_words |-> BuildThirdsHeader, data_row_words |-> BuildThirdsRow]
    /\ frame = None /\ ret = None
    /\ ParseIdle

BuildColumnsOf(clusters, header_words) == [clusters |-> clusters, columns |-> Calc("_build_columns_from_clusters", <<clusters, header_words, None>>)]

\* the clusters of the summary data row and the columns built from them
BuildColumnsRun ==
    /\ call.fn = "_build_columns_from_clusters" /\ ret = None
    /\ ret' = Some(BuildColumnsOf(Calc("_cluster_row_words", <<call.data_row_words, Q(35)>>), call.header_words))
    /\ UNCHANGED <<call, frame, parseVars>>

SpecBuildColumns == BuildColumnsInit /\ [][BuildColumnsRun]_vars

\* the cluster whose center is nearest to c (the first of them on a tie)
NearestCluster(clusters, c) ==
    LET dist(i) == RAbs(RSub(RMean(Centers(clusters[i])), c))
        best == {i \in 1..Len(clusters) : \A j \in 1..Len(clusters) : RLe(dist(i), dist(j))}
    IN CHOOSE i \in best : \A j \in best : i <= j

\* the column of a header token: the nearest cluster, or the next one when
\* the token's center exceeds that cluster's max x1 by more than 5
AssignedCluster(clusters, token) ==
    LET i == NearestCluster(clusters, Center(token))
    IN IF RLt(RAdd(RMaxOf(X1s(clusters[i])), Q(5)), Center(token)) /\ i < Len(clusters) THEN i + 1 ELSE i

\* the header tokens assigned to cluster idx, ordered by (top, x0)
AssignedTokens(clusters, header_words, idx) ==
    SortByTopX0(Select(header_words, {t \in 1..Len(header_words) : AssignedCluster(clusters, header_words[t]) = idx}))

\* the texts of the tokens, each text once (its first occurrence), joined by
\* single spaces
JoinedDistinct(tokens) ==
    JoinSpace(Pick([k \in 1..Len(tokens) |-> tokens[k].text], IndicesIn(Len(tokens), {k \in 1..Len(tokens) : \A j \in 1..(k - 1) : tokens[j].text # tokens[k].text})))

NameOr(joined) == IF joined = <<>> THEN S_Value ELSE joined

\* C24 as stated: the name of a column is the join of its assigned tokens
\* with no token text occurring twice.
ColumnNamesWithoutAnyRepeat ==
    (call.fn = "_build_columns_from_clusters" /\ ret # None) =>
        /\ Len(ret[1].columns) = Len(ret[1].clusters)
        /\ \A idx \in 1..Len(ret[1].columns) :
              ret[1].columns[idx].name = NameOr(JoinedDistinct(AssignedTokens(ret[1].clusters, call.header_words, idx)))

\* C24: every header token is assigned to exactly one column, the cluster
\* whose center is nearest to the token's center, or the next cluster when
\* the token's center exceeds that cluster's max x1 by more than 5 and a next
\* cluster exists; the name of a column is the join of its assigned tokens
\* ordered by (top, x0), without a token whose text is that of the token
\* immediately before it, and is 'Value' when no token was assigned to it.
ColumnNamesWithoutAdjacentRepeat ==
    (call.fn = "_build_columns_from_clusters" /\ ret # None) =>
        /\ Len(ret[1].columns) = Len(ret[1].clusters)
        /\ \A idx \in 1..Len(ret[1].columns) :
              ret[1].columns[idx].name = NameOr(JoinedWithoutRepeats(AssignedTokens(ret[1].clusters, call.header_words, idx)))

\* a column named after three tokens the third of which repeats the first,
\* next to a column with the default name
RepeatedHeaderTextKept ==
    /\ call.fn = "_build_columns_from_clusters" /\ ret # None
    /\ Len(ret[1].columns) = 2
    /\ ret[1].columns[1].name = T_Gain \o <<" ">> \o T_Loss \o <<" ">> \o T_Gain
    /\ ret[1].columns[2].name = S_Value

\* ------------------------------------------------------------------------
\* _normalize_spaced_tokens on its own (SpecNormalize)
\* ------------------------------------------------------------------------

\* single letters (one of them accented), a word, a colon and a digit
SpacedTokens == {<<"J">>, <<"o">>, <<"é">>, S_Name, T_Colon, T_One}

NormalizeInit ==
    /\ \E tokens \in SeqsUpTo(SpacedTokens, MaxSpacedTokens) : call = [fn |-> "_normalize_spaced_tokens", tokens |-> tokens]
    /\ frame = None /\ ret = None
    /\ ParseIdle

NormalizeRun ==
    /\ call.fn = "_normalize_spaced_tokens" /\ ret = None
    /\ ret' = Some(Calc("_normalize_spaced_tokens", <<call.tokens>>))
    /\ UNCHANGED <<call, frame, parseVars>>

SpecNormalize == NormalizeInit /\ [][NormalizeRun]_vars

SingleLetter(token) == Len(token) = 1 /\ IsAlpha(token)

\* the tokens in order, with a space between two neighbours unless glued(k)
\* says that token k + 1 is glued to token k
Glued(tokens, glued(_)) ==
    Flatten([k \in 1..Len(tokens) |-> IF k = 1 \/ glued(k - 1) THEN tokens[k] ELSE <<" ">> \o tokens[k]])

\* C25 as stated: every single-letter alphabetic token is merged into the
\* fragment that precedes it, the other tokens are emitted unchanged and in
\* order, and no character is dropped or reordered.
SingleLettersJoinPreceding ==
    (call.fn = "_normalize_spaced_tokens" /\ ret # None) =>
        LET glued(k) == SingleLetter(call.tokens[k + 1])
        IN /\ ret[1] = Glued(call.tokens, glued)
           /\ RemoveChar(ret[1], " ") = Flatten(call.tokens)

\* C25: a single-letter alphabetic token starts a fragment; the alphabetic
\* token that follows it, single letter or not, is merged into that fragment
\* with no space between them; every other token is emitted unchanged, the
\* fragments are in order and separated by one space, and no character is
\* dropped or reordered: removing the spaces from the output gives the
\* concatenation of the input tokens.
SingleLettersJoinFollowing ==
    (call.fn = "_normalize_spaced_tokens" /\ ret # None) =>
        LET glued(k) == SingleLetter(call.tokens[k]) /\ IsAlpha(call.tokens[k + 1])
        IN /\ ret[1] = Glued(call.tokens, glued)
           /\ RemoveChar(ret[1], " ") = Flatten(call.tokens)

\* spaced letters after a word and before a word: they are kept apart from
\* the word before them and glued to the word after them
SpacedLettersRebuilt ==
    /\ call.fn = "_normalize_spaced_tokens" /\ ret # None
    /\ call.tokens = <<S_Name, <<"J">>, <<"o">>, S_Name>>
    /\ ret[1] = S_Name \o <<" ", "J", "o">> \o S_Name

====
